---- MODULE Spec2Model ----
(***************************************************************************)
(* A model of the analytics aggregation engine of the FoodPanda analytics  *)
(* dashboard (analyticsService.analyze and its facet analyzers).           *)
(*                                                                         *)
(* Conventions of the model                                                *)
(*  - a JavaScript string that the code inspects character by character    *)
(*    (Order.status) is a tuple of one-character strings;                  *)
(*  - a monetary amount is an integer number of hundredths (300.00 is      *)
(*    30000); a quotient the code computes (an average, a percentage) is   *)
(*    an exact fraction [num, den]; binary floating-point rounding is not  *)
(*    modelled;                                                            *)
(*  - an Order.date string is the integer number of hours between          *)
(*    2024-01-01T00:00:00Z and the instant it denotes, or                  *)
(*    InvalidDateString for a string that new Date() cannot parse;         *)
(*  - a JavaScript object used as a string-keyed map (Record<string,       *)
(*    number>) is the sequence of its [k, v] entries in the order          *)
(*    Object.keys / Object.entries enumerate them.                         *)
(***************************************************************************)
EXTENDS Integers, Sequences, FiniteSets, TLC

VARIABLES
    orders,     \* the Order[] array handed to analyze (the caller's array)
    input,      \* history: the array as it was first handed to analyze
    tz,         \* the host's time-zone offset from UTC, in hours
    now,        \* the host's wall clock, in hours since 2024-01-01T00:00:00Z
    calls,      \* number of analyze calls made so far on the array
    result,     \* outcome of the latest analyze call
    prev,       \* outcome of the analyze call before the latest one
    raw,        \* the raw API orders the list is normalized from (<<>> when none)
    rateLimitMap,   \* middleware: client key -> [count, resetTime], or NoRecord
    nowMs,          \* middleware: Date.now(), in milliseconds
    passed,         \* history: per client key, the times of the requests let through
    response,       \* middleware: the response to the latest request
    requests,       \* number of requests the middleware has handled
    localStorage,   \* cache: the browser's localStorage, key -> raw item
    cacheNow,       \* cache: Date.now(), in milliseconds
    made,           \* cache: the namespaces whose lazy singleton is constructed
    written,        \* history: per key, the latest set that succeeded
    lastOp,         \* history: the latest cache operation and what it returned
    cacheOps,       \* number of cache operations made so far
    getOrSetCalls,  \* getOrSet: per caller, where its call stands and its result
    fetcherRuns,    \* getOrSet: number of times a fetcher was started
    state,          \* button: the ButtonState of ClearCacheButton
    reloadOnClear,  \* button: the prop of that name
    timers,         \* button: the pending setTimeout callbacks, kind -> how many
    cancelShown,    \* button: the Cancel button is in the page
    clears,         \* history: number of clearAllCaches calls by the button
    lastEvent,      \* history: the latest event on the button, and the state it met
    events,         \* number of events on the button so far
    pc,             \* action: where the processToken call stands
    rawToken,       \* action: the token field of the submitted form
    bearer,         \* action: the token handed to fetchOrders
    history,        \* provider: the account's raw orders, latest call's view
    offset,         \* fetchOrders: the offset of the next page request
    allOrders,      \* fetchOrders: the raw orders accumulated so far
    requested,      \* history: the offsets of the page requests made
    lastPage,       \* history: how the latest page request ended
    fetched,        \* history: what the fetchOrders call gave
    analyzeCalls,   \* history: number of analyze calls made by processToken
    actionState     \* action: what processToken returned

analyticsVars == <<orders, input, tz, now, calls, result, prev, raw>>

limiterVars == <<rateLimitMap, nowMs, passed, response, requests>>

cacheVars == <<localStorage, cacheNow, made, written, lastOp, cacheOps>>

getOrSetVars == <<getOrSetCalls, fetcherRuns>>

buttonVars ==
    <<state, reloadOnClear, timers, cancelShown, clears, lastEvent, events>>

actionVars ==
    <<pc, rawToken, bearer, history, offset, allOrders, requested, lastPage,
      fetched, analyzeCalls, actionState>>

restVars == <<getOrSetVars, buttonVars, actionVars>>

besidesGetOrSet == <<analyticsVars, limiterVars, buttonVars, actionVars>>

besidesButton == <<analyticsVars, limiterVars, getOrSetVars, actionVars>>

besidesAction == <<analyticsVars, limiterVars, cacheVars, getOrSetVars, buttonVars>>

besidesAnalytics == <<limiterVars, cacheVars, restVars>>

besidesLimiter == <<analyticsVars, cacheVars, restVars>>

besidesCache == <<analyticsVars, limiterVars, restVars>>

vars == <<analyticsVars, limiterVars, cacheVars, restVars>>

(***************************************************************************)
(* Bounds of the model.                                                    *)
(***************************************************************************)
MaxOrders == 3      \* longest order list of the enumerated input families
MaxCalls == 2       \* analyze calls made on one list
MaxNow == 1         \* wall-clock ticks observed during a run
MaxRequests == 12   \* requests handled by the middleware
MaxClock == 60001   \* latest time (ms) at which the middleware is observed
Quota == 8          \* what localStorage holds, in units of the probe's length
MaxCacheOps == 2    \* cache operations made in a run
MaxCacheHours == 2  \* hours of Date.now() observed by the cache
MaxEvents == 5      \* events on the ClearCacheButton in a run
MaxHistory == 221   \* orders in the longest order history at the provider

(***************************************************************************)
(* Generic helpers.                                                        *)
(***************************************************************************)
Range(s) == {s[i] : i \in DOMAIN s}

Min(a, b) == IF a < b THEN a ELSE b

RECURSIVE SumSeq(_)
SumSeq(s) == IF s = <<>> THEN 0 ELSE Head(s) + SumSeq(Tail(s))

\* Array.prototype.filter: the elements at the indices kept, in their order.
SelectIdx(s, keep) ==
    LET kept == keep
    IN  [p \in 1..Cardinality(kept) |->
            s[CHOOSE i \in kept : Cardinality({j \in kept : j < i}) = p - 1]]

\* An exact fraction num/den (den > 0).
Rat(n, d) == [num |-> n, den |-> d]
RatGT(r, k) == r.num > k * r.den
RatEq(r, k) == r.num = k * r.den
RatLT(r, k) == r.num < k * r.den

Abs(x) == IF x < 0 THEN -x ELSE x

RECURSIVE GCD(_, _)
GCD(a, b) == IF b = 0 THEN a ELSE GCD(b, a % b)

\* The quotient n / d (d # 0) in lowest terms, with a positive denominator.
Frac(n, d) ==
    LET g == GCD(Abs(n), Abs(d))
    IN  IF d < 0 THEN [num |-> (-n) \div g, den |-> (-d) \div g]
        ELSE [num |-> n \div g, den |-> d \div g]

RatAdd(a, b) == Frac(a.num * b.den + b.num * a.den, a.den * b.den)
RatNeg(a) == [num |-> -a.num, den |-> a.den]
RatMul(a, b) ==
    LET x == Frac(a.num, b.den)
        y == Frac(b.num, a.den)
    IN  Frac(x.num * y.num, x.den * y.den)

\* a / b for b # 0.
RatDiv(a, b) == RatMul(a, Frac(b.den, b.num))

\* Math.max(k, r) and Math.min(k, r) for an integer k.
RatMax(k, r) == IF RatGT(r, k) THEN r ELSE Rat(k, 1)
RatMin(k, r) == IF RatLT(r, k) THEN r ELSE Rat(k, 1)

(***************************************************************************)
(* Strings as character tuples: String.prototype.toLowerCase / includes.   *)
(***************************************************************************)
LowerOf ==
    ("A" :> "a") @@ ("B" :> "b") @@ ("C" :> "c") @@ ("D" :> "d") @@
    ("E" :> "e") @@ ("F" :> "f") @@ ("G" :> "g") @@ ("H" :> "h") @@
    ("I" :> "i") @@ ("J" :> "j") @@ ("K" :> "k") @@ ("L" :> "l") @@
    ("M" :> "m") @@ ("N" :> "n") @@ ("O" :> "o") @@ ("P" :> "p") @@
    ("Q" :> "q") @@ ("R" :> "r") @@ ("S" :> "s") @@ ("T" :> "t") @@
    ("U" :> "u") @@ ("V" :> "v") @@ ("W" :> "w") @@ ("X" :> "x") @@
    ("Y" :> "y") @@ ("Z" :> "z")

toLowerCase(s) ==
    [i \in DOMAIN s |-> IF s[i] \in DOMAIN LowerOf THEN LowerOf[s[i]] ELSE s[i]]

includes(s, sub) ==
    \E i \in 1..(Len(s) - Len(sub) + 1) : SubSeq(s, i, i + Len(sub) - 1) = sub

\* String.prototype.trim: the string without its leading and trailing blanks.
trim(s) ==
    IF \A i \in DOMAIN s : s[i] = " " THEN <<>>
    ELSE SubSeq(s,
                CHOOSE i \in DOMAIN s :
                    s[i] # " " /\ \A j \in 1..(i - 1) : s[j] = " ",
                CHOOSE i \in DOMAIN s :
                    s[i] # " " /\ \A j \in (i + 1)..Len(s) : s[j] = " ")

\* The UTF-16 code units of the characters item names are written with.
CharCode ==
    (" " :> 32) @@ ("A" :> 65) @@ ("B" :> 66) @@ ("a" :> 97) @@ ("b" :> 98) @@
    ("|" :> 124)

\* a < b on strings: the order by code units Array.prototype.sort() uses
\* when it is given no comparator.
StringLess(a, b) ==
    \E i \in 1..Len(b) :
        /\ \A j \in 1..(i - 1) : j <= Len(a) /\ a[j] = b[j]
        /\ \/ i = Len(a) + 1
           \/ i <= Len(a) /\ CharCode[a[i]] < CharCode[b[i]]

\* Array.prototype.sort() on strings: stable, ascending by code units.
SortStrings(strs) ==
    [p \in DOMAIN strs |->
        strs[CHOOSE i \in DOMAIN strs :
            Cardinality({j \in DOMAIN strs :
                StringLess(strs[j], strs[i])
                \/ (~StringLess(strs[i], strs[j]) /\ j < i)}) = p - 1]]

\* Array.prototype.join(sep).
RECURSIVE join(_, _)
join(strs, sep) ==
    IF strs = <<>> THEN <<>>
    ELSE IF Len(strs) = 1 THEN strs[1]
    ELSE strs[1] \o sep \o join(Tail(strs), sep)

TokenCancel == <<"c", "a", "n", "c", "e", "l">>
TokenFail == <<"f", "a", "i", "l">>

(***************************************************************************)
(* JavaScript objects as ordered maps.  OrdinaryOwnPropertyKeys lists the  *)
(* keys that are canonical array indices ("7", "24") first, in ascending   *)
(* numeric order, and then the other string keys in the order they were    *)
(* first created.                                                          *)
(***************************************************************************)
Undefined == -1     \* what record[k] yields for a key the object lacks

\* The array-index strings among the keys the model uses ("0" ... "24"), in
\* numeric order: String(h) for an hour h, and the value parseInt gives back.
IndexKeys ==
    <<"0", "1", "2", "3", "4", "5", "6", "7", "8", "9", "10", "11", "12", "13",
      "14", "15", "16", "17", "18", "19", "20", "21", "22", "23", "24">>

IndexValue ==
    [k \in {IndexKeys[i] : i \in DOMAIN IndexKeys} |->
        (CHOOSE i \in DOMAIN IndexKeys : IndexKeys[i] = k) - 1]

toString(h) == IndexKeys[h + 1]

parseInt(k) == IndexValue[k]

IsIndexKey(k) == k \in DOMAIN IndexValue

FirstSeen(keys, k) ==
    CHOOSE i \in DOMAIN keys : keys[i] = k /\ \A j \in 1..(i - 1) : keys[j] # k

\* a is enumerated before b in an object whose keys were created in the
\* order of their first occurrence in keys.
KeyPrecedes(keys, a, b) ==
    IF IsIndexKey(a) /\ IsIndexKey(b) THEN IndexValue[a] < IndexValue[b]
    ELSE IF IsIndexKey(a) THEN a # b
    ELSE IF IsIndexKey(b) THEN FALSE
    ELSE FirstSeen(keys, a) < FirstSeen(keys, b)

\* Object.keys of the object obtained by creating the keys in this order.
OwnKeys(keys) ==
    LET K == Range(keys)
    IN  [p \in 1..Cardinality(K) |->
            CHOOSE k \in K : Cardinality({j \in K : KeyPrecedes(keys, j, k)}) = p - 1]

Keys(record) == [p \in DOMAIN record |-> record[p].k]
Values(record) == [p \in DOMAIN record |-> record[p].v]

Lookup(record, key) ==
    IF \E p \in DOMAIN record : record[p].k = key
    THEN (CHOOSE e \in Range(record) : e.k = key).v
    ELSE Undefined

\* x > y on JavaScript numbers, false as soon as one side is undefined.
JsGreater(x, y) == x # Undefined /\ y # Undefined /\ x > y

\* lodash countBy over the keys the iteratee yields.
countBy(keys) ==
    LET ks == OwnKeys(keys)
    IN  [p \in DOMAIN ks |->
            [k |-> ks[p], v |-> Cardinality({i \in DOMAIN keys : keys[i] = ks[p]})]]

\* Array.prototype.sort with comparator ([, a], [, b]) => b - a: stable,
\* descending by value.
SortEntriesDesc(entries) ==
    [p \in DOMAIN entries |->
        entries[CHOOSE i \in DOMAIN entries :
            Cardinality({j \in DOMAIN entries :
                entries[j].v > entries[i].v
                \/ (entries[j].v = entries[i].v /\ j < i)}) = p - 1]]

\* Array.prototype.sort with comparator (a, b) => a - b on numbers.
SortAsc(values) ==
    [p \in DOMAIN values |->
        values[CHOOSE i \in DOMAIN values :
            Cardinality({j \in DOMAIN values :
                values[j] < values[i]
                \/ (values[j] = values[i] /\ j < i)}) = p - 1]]

\* reduce((acc, [k, v]) => ({ ...acc, [k]: v }), {}): the object holding
\* the entries, its keys created in the order of the entries.
FromEntries(entries) ==
    LET ks == OwnKeys(Keys(entries))
    IN  [p \in DOMAIN ks |-> [k |-> ks[p], v |-> Lookup(entries, ks[p])]]

getTopN(record, n) ==
    LET sorted == SortEntriesDesc(record)
        cut == SubSeq(sorted, 1, Min(n, Len(sorted)))
    IN  FromEntries(cut)

(***************************************************************************)
(* Dates.  2024-01-01 is a Monday (getDay() = 1).                          *)
(***************************************************************************)
InvalidDateString == -1

isInvalidDate(d) == d = InvalidDateString

\* new Date(date).getTime(), in hours.
getTime(d) == d

\* new Date(date).getDay() in the host's time zone: 0 = Sunday ... 6 = Saturday.
getDay(d, z) == (((d + z) \div 24) + 1) % 7

\* new Date(date).getHours() in the host's time zone.
getHours(d, z) == (d + z) % 24

dayNames ==
    <<"Sunday", "Monday", "Tuesday", "Wednesday", "Thursday", "Friday", "Saturday">>

\* toLocaleDateString('en-US', { weekday: 'long' }) in the host's time zone.
weekdayLong(d, z) == dayNames[getDay(d, z) + 1]

\* The dates of the model lie in 2024; the day of the year (from 0) on which
\* each of its months starts.
MonthStartDay == <<0, 31, 60, 91, 121, 152, 182, 213, 244, 274, 305, 335>>

getFullYear(d, z) == 2024

\* new Date(date).getMonth() in the host's time zone: 0 = January.
getMonth(d, z) ==
    Cardinality({m \in DOMAIN MonthStartDay : MonthStartDay[m] <= (d + z) \div 24}) - 1

MonthKeys ==
    <<"2024-01", "2024-02", "2024-03", "2024-04", "2024-05", "2024-06",
      "2024-07", "2024-08", "2024-09", "2024-10", "2024-11", "2024-12">>

\* `${d.getFullYear()}-${String(d.getMonth() + 1).padStart(2, '0')}`
localMonthKey(d, z) == MonthKeys[getMonth(d, z) + 1]

\* new Date(date).toISOString().slice(0, 7): the month in UTC.
isoMonthKey(d) == MonthKeys[getMonth(d, 0) + 1]

QuarterKeys == <<"2024-Q1", "2024-Q2", "2024-Q3", "2024-Q4">>

\* `${date.getFullYear()}-Q${Math.floor(date.getMonth() / 3) + 1}`
quarterKey(d, z) == QuarterKeys[(getMonth(d, z) \div 3) + 1]

\* Object.entries(record).sort() on a record keyed by months: the default
\* sort compares the entries as the strings "key,value", which orders
\* distinct keys of the form YYYY-MM chronologically.
SortMonthEntries(entries) ==
    LET rank(k) == CHOOSE m \in DOMAIN MonthKeys : MonthKeys[m] = k
    IN  [p \in DOMAIN entries |->
            entries[CHOOSE i \in DOMAIN entries :
                Cardinality({j \in DOMAIN entries :
                    rank(entries[j].k) < rank(entries[i].k)}) = p - 1]]

\* The object built by record[key(o)] = (record[key(o)] || 0) + value(o)
\* over the orders in turn (also _.groupBy followed by _.sumBy): keys in
\* creation order, each with the sum of the values filed under it.
SumBy(keys, values) ==
    LET ks == OwnKeys(keys)
    IN  [p \in DOMAIN ks |->
            [k |-> ks[p],
             v |-> SumSeq(SelectIdx(values, {i \in DOMAIN keys : keys[i] = ks[p]}))]]

\* [...deliveredOrders].sort((a, b) => getTime(a.date) - getTime(b.date)):
\* a stable ascending sort of a copy.
sortedOrders(os) ==
    [p \in DOMAIN os |->
        os[CHOOSE i \in DOMAIN os :
            Cardinality({j \in DOMAIN os :
                getTime(os[j].date) < getTime(os[i].date)
                \/ (getTime(os[j].date) = getTime(os[i].date) /\ j < i)}) = p - 1]]

(***************************************************************************)
(* analyticsService: the facet analyzers.                                  *)
(***************************************************************************)
\* isDelivered comparing the status as it is, without lowercasing it.
isDeliveredCaseSensitive(o) ==
    /\ ~includes(o.status, TokenCancel)
    /\ ~includes(o.status, TokenFail)

\* The predicate of the filter of analyze: the order is retained.
isDelivered(o) ==
    /\ ~includes(toLowerCase(o.status), TokenCancel)
    /\ ~includes(toLowerCase(o.status), TokenFail)

getEmptyAnalytics ==
    [spending |->
        [total_spent |-> 0, average_order_value |-> 0, median_order_value |-> 0,
         total_delivery_fees |-> 0, total_service_fees |-> 0,
         total_voucher_savings |-> 0, voucher_usage_rate |-> 0,
         monthly_spending |-> <<>>,
         spending_category |->
            [type |-> "N/A", description |-> "No data", color |-> "gray"]],
     restaurants |->
        [top_restaurants_by_orders |-> <<>>, unique_restaurants |-> 0,
         loyalty_analysis |->
            [level |-> "N/A", description |-> "No data", top_restaurant |-> "",
             top_restaurant_percentage |-> 0]],
     food |->
        [top_food_items |-> <<>>, food_categories |-> <<>>,
         average_items_per_order |-> 0, total_unique_items |-> 0],
     patterns |->
        [peak_hour |-> 0, peak_day |-> "",
         weekend_vs_weekday |->
            [weekend_orders |-> 0, weekday_orders |-> 0, weekend_percentage |-> 0],
         hourly_patterns |-> <<>>],
     payments |->
        [payment_method_counts |-> <<>>, preferred_payment_method |-> "N/A"],
     prices |->
        [average_price_per_item |-> 0, price_range |-> [min |-> 0, max |-> 0],
         restaurant_value_scores |-> <<>>, discount_effectiveness |-> 0,
         price_trend_over_time |-> <<>>],
     behavior |->
        [order_size_distribution |-> [small |-> 0, medium |-> 0, large |-> 0],
         average_basket_size |-> 0,
         addon_frequency |-> [drinks_percentage |-> 0, desserts_percentage |-> 0],
         reorder_patterns |->
            [exact_reorder_count |-> 0, similar_items_frequency |-> <<>>]],
     diversity |->
        [cuisine_switching_rate |-> 0, new_restaurants_per_month |-> <<>>,
         restaurant_discovery_rate |-> 0, cuisine_preference_evolution |-> <<>>,
         variety_score |-> 0],
     timeAnalysis |->
        [order_frequency_trend |-> <<>>, average_days_between_orders |-> 0,
         spending_by_day_of_week |-> <<>>, seasonal_patterns |-> <<>>,
         time_gap_distribution |->
            [same_day |-> 0, within_week |-> 0, within_month |-> 0, over_month |-> 0],
         ordering_acceleration |-> 0],
     costOptimization |->
        [fee_to_food_ratio |-> 0, average_fee_percentage |-> 0,
         optimal_order_value |-> 0,
         voucher_impact |->
            [avg_savings_with_voucher |-> 0, avg_order_value_with_voucher |-> 0,
             avg_order_value_without_voucher |-> 0],
         delivery_fee_variance |-> [min |-> 0, max |-> 0, avg |-> 0],
         potential_savings |-> 0],
     healthDietary |->
        [healthy_vs_indulgent_ratio |-> 0,
         meal_type_distribution |->
            [breakfast |-> 0, lunch |-> 0, dinner |-> 0, snack |-> 0],
         drink_to_food_ratio |-> 0, healthy_food_percentage |-> 0,
         indulgent_food_percentage |-> 0, category_health_scores |-> <<>>],
     predictive |->
        [forecasted_monthly_spending |-> 0, spending_trend |-> "stable",
         trend_percentage |-> 0, predicted_next_order_days |-> 0,
         estimated_annual_spending |-> 0],
     advanced |->
        [customer_lifetime_value |-> 0, order_efficiency_score |-> 0,
         brand_loyalty_score |-> 0, spontaneity_index |-> 0,
         deal_dependency_ratio |-> 0, churn_risk_score |-> 0,
         exploration_vs_exploitation |->
            [exploration_percentage |-> 0, exploitation_percentage |-> 0]],
     comparative |->
        [spending_percentile |-> 50, order_frequency_category |-> "N/A",
         value_consciousness_score |-> 0],
     insights |-> <<>>]

\* calculateMedian taking the middle of the values as given, without sorting.
calculateMedianUnsorted(values) ==
    IF Len(values) = 0 THEN [ret |-> Rat(0, 1), values |-> values]
    ELSE
        LET mid == Len(values) \div 2
        IN  [ret |-> IF Len(values) % 2 # 0
                     THEN Rat(values[mid + 1], 1)
                     ELSE Rat(values[mid] + values[mid + 1], 2),
             values |-> values]

\* calculateMedian: ret is the value returned, values the argument array as
\* the call leaves it (the sort is applied to the copy [...values]).
calculateMedian(values) ==
    IF Len(values) = 0 THEN [ret |-> Rat(0, 1), values |-> values]
    ELSE
        LET sorted == SortAsc(values)
            mid == Len(sorted) \div 2
        IN  [ret |-> IF Len(sorted) % 2 # 0
                     THEN Rat(sorted[mid + 1], 1)
                     ELSE Rat(sorted[mid] + sorted[mid + 1], 2),
             values |-> values]

\* categorizeSpending testing the lower threshold first.
categorizeSpendingLowerFirst(avg) ==
    IF RatGT(avg, 25000)
    THEN [type |-> "Medium Spender", description |-> "Balanced spending",
          color |-> "#f39c12"]
    ELSE IF RatGT(avg, 40000)
    THEN [type |-> "Big Spender", description |-> "You love premium food",
          color |-> "#e74c3c"]
    ELSE [type |-> "Light Spender", description |-> "You save money",
          color |-> "#27ae60"]

\* categorizeSpending with inclusive thresholds (>= instead of >).
categorizeSpendingInclusive(avg) ==
    IF avg.num >= 40000 * avg.den
    THEN [type |-> "Big Spender", description |-> "You love premium food",
          color |-> "#e74c3c"]
    ELSE IF avg.num >= 25000 * avg.den
    THEN [type |-> "Medium Spender", description |-> "Balanced spending",
          color |-> "#f39c12"]
    ELSE [type |-> "Light Spender", description |-> "You save money",
          color |-> "#27ae60"]

categorizeSpending(avg) ==
    IF RatGT(avg, 40000)
    THEN [type |-> "Big Spender", description |-> "You love premium food",
          color |-> "#e74c3c"]
    ELSE IF RatGT(avg, 25000)
    THEN [type |-> "Medium Spender", description |-> "Balanced spending",
          color |-> "#f39c12"]
    ELSE [type |-> "Light Spender", description |-> "You save money",
          color |-> "#27ae60"]

analyzeSpending(os, z) ==
    LET totalSpent == SumSeq([i \in DOMAIN os |-> os[i].total_value])
        avgOrderValue == Rat(totalSpent, Len(os))
        medianOrderValue ==
            calculateMedian([i \in DOMAIN os |-> os[i].total_value]).ret
        voucherOrders == {i \in DOMAIN os : os[i].voucher_discount > 0}
        voucherUsageRate == Rat(Cardinality(voucherOrders) * 100, Len(os))
    IN  [total_spent |-> totalSpent,
         average_order_value |-> avgOrderValue,
         median_order_value |-> medianOrderValue,
         monthly_spending |->
            SumBy([i \in DOMAIN os |-> localMonthKey(os[i].date, z)],
                  [i \in DOMAIN os |-> os[i].total_value]),
         total_voucher_savings |->
            SumSeq([i \in DOMAIN os |-> os[i].voucher_discount]),
         voucher_usage_rate |-> voucherUsageRate,
         spending_category |-> categorizeSpending(avgOrderValue)]

analyzeRestaurants(os) ==
    LET restaurantCounts == countBy([i \in DOMAIN os |-> os[i].restaurant_name])
        topRestaurants == getTopN(restaurantCounts, 10)
        topRestName == IF Len(topRestaurants) > 0 THEN topRestaurants[1].k ELSE ""
        topRestCount == IF Len(topRestaurants) > 0 THEN topRestaurants[1].v ELSE 0
        loyaltyPct == Rat(topRestCount * 100, Len(os))
        tier ==
            IF RatGT(loyaltyPct, 30)
            THEN [level |-> "Super Loyal", desc |-> "You have a favorite place"]
            ELSE IF RatGT(loyaltyPct, 15)
            THEN [level |-> "Loyal", desc |-> "You like some places more"]
            ELSE [level |-> "Explorer", desc |-> "You try many places"]
    IN  [top_restaurants_by_orders |-> topRestaurants,
         unique_restaurants |-> Len(restaurantCounts),
         loyalty_analysis |->
            [level |-> tier.level,
             description |-> tier.desc,
             top_restaurant |-> topRestName,
             top_restaurant_percentage |-> loyaltyPct]]

\* The reduce keeping the accumulated key on a tie (>= instead of >).
RECURSIVE reducePreferredKeepingFirst(_, _, _)
reducePreferredKeepingFirst(counts, p, a) ==
    IF p > Len(counts) THEN a
    ELSE
        LET b == counts[p].k
            ca == Lookup(counts, a)
            cb == Lookup(counts, b)
        IN  reducePreferredKeepingFirst(counts, p + 1,
                IF ca # Undefined /\ cb # Undefined /\ ca >= cb THEN a ELSE b)

\* Object.keys(counts).reduce((a, b) => counts[a] > counts[b] ? a : b, acc),
\* from the key at position p on.
RECURSIVE reducePreferred(_, _, _)
reducePreferred(counts, p, a) ==
    IF p > Len(counts) THEN a
    ELSE
        LET b == counts[p].k
        IN  reducePreferred(counts, p + 1,
                IF JsGreater(Lookup(counts, a), Lookup(counts, b)) THEN a ELSE b)

\* The callback of the weekendOrders filter returns at its first statement.
isWeekendOrder(o, z) ==
    LET day == getDay(o.date, z)
    IN  day = 5 \/ day = 6

analyzePatterns(os, z) ==
    LET weekendOrders == Cardinality({i \in DOMAIN os : isWeekendOrder(os[i], z)})
        hourlyPatterns ==
            countBy([i \in DOMAIN os |-> toString(getHours(os[i].date, z))])
        dayPatterns == countBy([i \in DOMAIN os |-> weekdayLong(os[i].date, z)])
    IN  [peak_hour |-> parseInt(reducePreferred(hourlyPatterns, 1, "0")),
         peak_day |-> reducePreferred(dayPatterns, 1, ""),
         hourly_patterns |-> hourlyPatterns,
         weekend_vs_weekday |->
            [weekend_orders |-> weekendOrders,
             weekday_orders |-> Len(os) - weekendOrders,
             weekend_percentage |-> Rat(weekendOrders * 100, Len(os))]]

analyzePayments(os) ==
    LET counts == countBy([i \in DOMAIN os |-> os[i].payment_method])
        preferred == reducePreferred(counts, 1, "N/A")
    IN  [payment_method_counts |-> counts,
         preferred_payment_method |-> preferred]

\* The signature of an order taken over its distinct item names only.
itemSignatureDistinct(o) ==
    LET names == [i \in DOMAIN o.items |-> trim(toLowerCase(o.items[i].name))]
        firsts == {i \in DOMAIN names : \A j \in 1..(i - 1) : names[j] # names[i]}
    IN  join(SortStrings(SelectIdx(names, firsts)), <<"|">>)

\* order.items.map(i => i.name.toLowerCase().trim()).sort().join('|')
itemSignature(o) ==
    join(SortStrings([i \in DOMAIN o.items |->
                        trim(toLowerCase(o.items[i].name))]), <<"|">>)

\* order.items.reduce((sum, item) => sum + item.quantity, 0)
itemCount(o) == SumSeq([i \in DOMAIN o.items |-> o.items[i].quantity])

\* The fields of the facet that are computed from the item names and
\* quantities alone; signatureCounts is lodash countBy over the signatures,
\* of which only the values are read.
analyzeOrderBehavior(os) ==
    LET itemSignatures == [i \in DOMAIN os |-> itemSignature(os[i])]
        signatureCounts ==
            [sig \in Range(itemSignatures) |->
                Cardinality({i \in DOMAIN os : itemSignatures[i] = sig})]
        exactReorderCount ==
            Cardinality({sig \in DOMAIN signatureCounts : signatureCounts[sig] > 1})
    IN  [order_size_distribution |->
            [small |-> Cardinality({i \in DOMAIN os : itemCount(os[i]) <= 2}),
             medium |-> Cardinality({i \in DOMAIN os :
                            itemCount(os[i]) > 2 /\ itemCount(os[i]) <= 5}),
             large |-> Cardinality({i \in DOMAIN os : itemCount(os[i]) > 5})],
         average_basket_size |->
            Frac(SumSeq([i \in DOMAIN os |-> itemCount(os[i])]), Len(os)),
         reorder_patterns |-> [exact_reorder_count |-> exactReorderCount]]

\* The buckets with exclusive upper bounds (days < 7, days < 30).
timeGapBucketExclusive(h) ==
    IF h < 24 THEN "same_day"
    ELSE IF h < 7 * 24 THEN "within_week"
    ELSE IF h < 30 * 24 THEN "within_month"
    ELSE "over_month"

\* A gap of h hours is days = h / 24: days < 1, days <= 7, days <= 30.
timeGapBucket(h) ==
    IF h < 24 THEN "same_day"
    ELSE IF h <= 7 * 24 THEN "within_week"
    ELSE IF h <= 30 * 24 THEN "within_month"
    ELSE "over_month"

\* The ordering acceleration of chronological orders (midPoint > 0).
orderingAcceleration(os) ==
    LET n == Len(os)
        midPoint == n \div 2
        firstHalfHours == getTime(os[midPoint + 1].date) - getTime(os[1].date)
        secondHalfHours == getTime(os[n].date) - getTime(os[midPoint + 1].date)
        firstHalfFreq ==
            IF firstHalfHours > 0 THEN Frac(midPoint * 24, firstHalfHours)
            ELSE Rat(0, 1)
        secondHalfFreq ==
            IF secondHalfHours > 0 THEN Frac((n - midPoint) * 24, secondHalfHours)
            ELSE Rat(0, 1)
    IN  IF RatGT(firstHalfFreq, 0)
        THEN RatMul(RatDiv(RatAdd(secondHalfFreq, RatNeg(firstHalfFreq)),
                           firstHalfFreq),
                    Rat(100, 1))
        ELSE Rat(0, 1)

\* analyzeTimePatterns on the chronological orders (never empty here).
analyzeTimePatterns(os, z) ==
    LET n == Len(os)
        hoursBetween ==
            [i \in 1..(n - 1) |-> getTime(os[i + 1].date) - getTime(os[i].date)]
        bucket(b) ==
            Cardinality({i \in DOMAIN hoursBetween : timeGapBucket(hoursBetween[i]) = b})
    IN  [order_frequency_trend |->
            countBy([i \in DOMAIN os |-> isoMonthKey(os[i].date)]),
         average_days_between_orders |->
            IF n > 1 THEN Frac(SumSeq(hoursBetween), 24 * (n - 1)) ELSE Rat(0, 1),
         spending_by_day_of_week |->
            SumBy([i \in DOMAIN os |-> dayNames[getDay(os[i].date, z) + 1]],
                  [i \in DOMAIN os |-> os[i].total_value]),
         seasonal_patterns |->
            SumBy([i \in DOMAIN os |-> quarterKey(os[i].date, z)],
                  [i \in DOMAIN os |-> os[i].total_value]),
         time_gap_distribution |->
            [same_day |-> bucket("same_day"),
             within_week |-> bucket("within_week"),
             within_month |-> bucket("within_month"),
             over_month |-> bucket("over_month")],
         ordering_acceleration |->
            IF n \div 2 > 0 THEN orderingAcceleration(os) ELSE Rat(0, 1)]

\* The trend without the cap of Math.max(-15, Math.min(15, ...)).
capTrendNot(trendPercentage) == trendPercentage

\* Math.max(-15, Math.min(15, trendPercentage))
capTrend(trendPercentage) == RatMax(-15, RatMin(15, trendPercentage))

\* The slope of the least-squares line through (0, y[1]), (1, y[2]), ... as
\* a percentage of the mean of the y (two values or more).
trendOf(yValues) ==
    LET n == Len(yValues)
        sumX == SumSeq([i \in 1..n |-> i - 1])
        sumY == SumSeq(yValues)
        sumXY == SumSeq([i \in 1..n |-> (i - 1) * yValues[i]])
        sumXX == SumSeq([i \in 1..n |-> (i - 1) * (i - 1)])
        slope == Frac(n * sumXY - sumX * sumY, n * sumXX - sumX * sumX)
        averageY == Frac(sumY, n)
    IN  IF averageY.num # 0
        THEN RatMul(RatDiv(slope, averageY), Rat(100, 1))
        ELSE Rat(0, 1)

\* The prediction without the floor of one day.
predictedNextOrderDaysUnfloored(timeAnalysis) ==
    timeAnalysis.average_days_between_orders

\* Math.max(1, timeAnalysis.average_days_between_orders)
predictedNextOrderDays(timeAnalysis) ==
    RatMax(1, timeAnalysis.average_days_between_orders)

\* analyzePredictive on the chronological orders.
analyzePredictive(os, spending, timeAnalysis, z) ==
    IF Len(os) < 2
    THEN [forecasted_monthly_spending |-> spending.average_order_value,
          spending_trend |-> "stable",
          trend_percentage |-> Rat(0, 1),
          predicted_next_order_days |-> Rat(7, 1),
          estimated_annual_spending |-> Rat(spending.total_spent * 12, 1)]
    ELSE
        LET monthlySpendingEntries == SortMonthEntries(spending.monthly_spending)
            first == os[1].date
            last == os[Len(os)].date
            monthDiff ==
                (getFullYear(last, z) - getFullYear(first, z)) * 12
                    + (getMonth(last, z) - getMonth(first, z)) + 1
            activeMonths == IF monthDiff > 1 THEN monthDiff ELSE 1
            lifetimeMonthlyAvg == Frac(spending.total_spent, activeMonths)
            m == Len(monthlySpendingEntries)
            recentMonthsData ==
                SubSeq(monthlySpendingEntries, IF m > 6 THEN m - 5 ELSE 1, m)
            r == Len(recentMonthsData)
            weightedSum == SumSeq([i \in 1..r |-> recentMonthsData[i].v * i])
            totalWeight == SumSeq([i \in 1..r |-> i])
            recentWeightedAvg ==
                IF r > 0 THEN Frac(weightedSum, totalWeight) ELSE lifetimeMonthlyAvg
            trendPercentage ==
                IF r >= 2 THEN trendOf(Values(recentMonthsData)) ELSE Rat(0, 1)
            cappedTrend == capTrend(trendPercentage)
            baseForecast ==
                RatAdd(RatMul(recentWeightedAvg, Frac(7, 10)),
                       RatMul(lifetimeMonthlyAvg, Frac(3, 10)))
            forecastedMonthlySpending ==
                RatMul(baseForecast,
                       RatAdd(Rat(1, 1), RatDiv(cappedTrend, Rat(100, 1))))
        IN  [forecasted_monthly_spending |-> forecastedMonthlySpending,
             spending_trend |->
                IF RatGT(cappedTrend, 5) THEN "increasing"
                ELSE IF RatLT(cappedTrend, -5) THEN "decreasing"
                ELSE "stable",
             trend_percentage |-> cappedTrend,
             predicted_next_order_days |-> predictedNextOrderDays(timeAnalysis),
             estimated_annual_spending |->
                RatMul(forecastedMonthlySpending, Rat(12, 1))]

\* calculateVariance of integers (two values or more).
calculateVariance(values) ==
    LET n == Len(values)
        total == SumSeq(values)
    IN  \* mean of (v - total/n)^2 = sum((n*v - total)^2) / n^3
        Frac(SumSeq([i \in 1..n |-> (n * values[i] - total) * (n * values[i] - total)]),
             n * n * n)

\* The span taken for a single order being 0 days instead of 30.
lifetimeHoursZeroForOne(os) ==
    IF Len(os) > 1 THEN getTime(os[Len(os)].date) - getTime(os[1].date) ELSE 0

\* totalDays, in hours: the span from the first to the last order, 30 days
\* for a single order.
lifetimeHours(os) ==
    IF Len(os) > 1 THEN getTime(os[Len(os)].date) - getTime(os[1].date)
    ELSE 30 * 24

\* The churn risk with the first threshold inclusive (<= -20).
churnRiskScoreInclusive(acceleration) ==
    IF acceleration.num <= (-20) * acceleration.den THEN 80
    ELSE IF RatLT(acceleration, 0) THEN 50
    ELSE 20

churnRiskScore(acceleration) ==
    IF RatLT(acceleration, -20) THEN 80
    ELSE IF RatLT(acceleration, 0) THEN 50
    ELSE 20

\* analyzeAdvancedMetrics on the chronological orders.
analyzeAdvancedMetrics(os, restaurants, timeAnalysis, spending, z) ==
    LET n == Len(os)
        totalHours == lifetimeHours(os)
        dailyValue ==
            Frac(spending.total_spent * 24, IF totalHours > 24 THEN totalHours ELSE 24)
        unique == restaurants.unique_restaurants
        avgOrdersPerRestaurant == Frac(n, IF unique > 1 THEN unique ELSE 1)
        loyaltyPct == restaurants.loyalty_analysis.top_restaurant_percentage
        voucherUsage == spending.voucher_usage_rate
        hours == [i \in DOMAIN os |-> getHours(os[i].date, z)]
        hourVariance == IF n > 1 THEN calculateVariance(hours) ELSE Rat(0, 1)
        restaurantCounts == countBy([i \in DOMAIN os |-> os[i].restaurant_name])
        topRestaurantCount ==
            CHOOSE c \in Range(Values(restaurantCounts)) :
                \A d \in Range(Values(restaurantCounts)) : d <= c
        exploitationPercentage == Frac(topRestaurantCount * 100, n)
    IN  [customer_lifetime_value |-> RatMul(dailyValue, Rat(365, 1)),
         order_efficiency_score |->
            RatMin(100, RatMul(avgOrdersPerRestaurant, Rat(10, 1))),
         brand_loyalty_score |->
            RatMin(100,
                RatAdd(RatMul(Frac(loyaltyPct.num, loyaltyPct.den), Frac(6, 10)),
                       RatMul(RatAdd(Rat(100, 1),
                                     RatNeg(Frac(voucherUsage.num, voucherUsage.den))),
                              Frac(4, 10)))),
         spontaneity_index |->
            RatMin(100, RatMul(RatDiv(hourVariance, Rat(50, 1)), Rat(100, 1))),
         deal_dependency_ratio |-> spending.voucher_usage_rate,
         churn_risk_score |-> churnRiskScore(timeAnalysis.ordering_acceleration),
         exploration_vs_exploitation |->
            [exploration_percentage |->
                RatAdd(Rat(100, 1), RatNeg(exploitationPercentage)),
             exploitation_percentage |-> exploitationPercentage]]

\* The voucher insight emitted from a usage rate of 20 on (>= instead of >).
hasVoucherInsightInclusive(spending) ==
    spending.voucher_usage_rate.num >= 20 * spending.voucher_usage_rate.den

hasVoucherInsight(spending) == RatGT(spending.voucher_usage_rate, 20)

timingTitle(hour) ==
    IF hour >= 5 /\ hour < 12 THEN "Morning Person"
    ELSE IF hour >= 12 /\ hour < 17 THEN "Lunch Lover"
    ELSE IF hour >= 17 /\ hour < 22 THEN "Evening Eater"
    ELSE "Night Owl"

timingDescription(hour) ==
    IF hour >= 5 /\ hour < 12 THEN "You order early in the day"
    ELSE IF hour >= 12 /\ hour < 17 THEN "You order at lunch time"
    ELSE IF hour >= 17 /\ hour < 22 THEN "You order for dinner"
    ELSE "You order late at night"

\* The insights, each with its category, title, description and color; the
\* texts formatted from numbers (every detailedExplanation, the description
\* of the voucher insight) and the icons are left out.
generateInsights(spending, restaurants, patterns) ==
    <<[category |-> "spending",
       title |-> spending.spending_category.type,
       description |-> spending.spending_category.description,
       color |-> spending.spending_category.color]>>
    \o (IF hasVoucherInsight(spending)
        THEN <<[category |-> "voucher",
                title |-> IF RatGT(spending.voucher_usage_rate, 50)
                          THEN "Smart Saver" ELSE "Deal Hunter",
                color |-> "#9b59b6"]>>
        ELSE <<>>)
    \o <<[category |-> "timing",
          title |-> timingTitle(patterns.peak_hour),
          description |-> timingDescription(patterns.peak_hour),
          color |-> "#3498db"],
         [category |-> "loyalty",
          title |-> restaurants.loyalty_analysis.level,
          description |-> restaurants.loyalty_analysis.description,
          color |-> "#e67e22"]>>

(***************************************************************************)
(* analyticsService.analyze.  An outcome is either                         *)
(*   [kind |-> "return", value |-> FullAnalytics] or                       *)
(*   [kind |-> "throw", name |-> ..., message |-> ...].                    *)
(* With a retained order whose date does not parse, every facet up to      *)
(* analyzeOrderBehavior computes on NaN without throwing; the first        *)
(* new Date(o.date).toISOString() (analyzeDiversity with two or more       *)
(* retained orders, else analyzeTimePatterns) throws the built-in          *)
(* RangeError "Invalid time value".                                        *)
(***************************************************************************)
analyzeOutcome(os, z) ==
    LET deliveredOrders == SelectIdx(os, {i \in DOMAIN os : isDelivered(os[i])})
    IN  IF Len(deliveredOrders) = 0
        THEN [kind |-> "return", value |-> getEmptyAnalytics]
        ELSE IF \E i \in DOMAIN deliveredOrders :
                    isInvalidDate(deliveredOrders[i].date)
        THEN [kind |-> "throw", name |-> "RangeError",
              message |-> "Invalid time value"]
        ELSE
            LET sorted == sortedOrders(deliveredOrders)
                spending == analyzeSpending(deliveredOrders, z)
                restaurants == analyzeRestaurants(deliveredOrders)
                patterns == analyzePatterns(deliveredOrders, z)
                timeAnalysis == analyzeTimePatterns(sorted, z)
            IN  [kind |-> "return",
                 value |->
                    [spending |-> spending,
                     restaurants |-> restaurants,
                     patterns |-> patterns,
                     payments |-> analyzePayments(deliveredOrders),
                     behavior |-> analyzeOrderBehavior(deliveredOrders),
                     timeAnalysis |-> timeAnalysis,
                     predictive |->
                        analyzePredictive(sorted, spending, timeAnalysis, z),
                     advanced |->
                        analyzeAdvancedMetrics(sorted, restaurants, timeAnalysis,
                                               spending, z),
                     insights |-> generateInsights(spending, restaurants, patterns)]]

\* analyze sorting the caller's array itself instead of a copy.
analyzeSortingInPlace(os, z) ==
    [ret |-> analyzeOutcome(os, z),
     orders |-> IF \E i \in DOMAIN os : isInvalidDate(os[i].date)
                THEN os ELSE sortedOrders(os)]

\* ret is the outcome of the call, orders the caller's array as the call
\* leaves it: filter builds a new array and the sort is applied to a copy.
analyze(os, z) == [ret |-> analyzeOutcome(os, z), orders |-> os]

(***************************************************************************)
(* foodpandaService.normalizeOrders, as far as the date of an order goes.  *)
(* A raw date field is AbsentField when it is missing or the empty string  *)
(* (both falsy).                                                           *)
(***************************************************************************)
AbsentField == -2

normalizeDate(r, clock) ==
    IF r.ordered_at # AbsentField THEN r.ordered_at
    ELSE IF r.createdAt # AbsentField THEN r.createdAt
    ELSE IF r.delivery_date # AbsentField THEN r.delivery_date
    ELSE clock

\* order.current_status?.message || order.status || "": a raw status that is
\* missing is written as the empty string, which is falsy as well.
normalizeStatus(r) == IF r.status # <<>> THEN r.status ELSE <<>>

normalizeOrders(rawOrders, clock) ==
    [i \in DOMAIN rawOrders |->
        [id |-> rawOrders[i].code,
         restaurant_name |-> "Unknown Restaurant",
         total_value |-> 0,
         voucher_discount |-> 0,
         status |-> normalizeStatus(rawOrders[i]),
         date |-> normalizeDate(rawOrders[i], clock),
         items |-> <<>>,
         payment_method |-> "Unknown"]]

(***************************************************************************)
(* The inputs: bounded families of order lists, each varying the fields    *)
(* one group of analyzers reads.                                           *)
(***************************************************************************)
SeqsUpTo(V, n) == UNION {[1..k -> V] : k \in 0..n}

\* 2024-03-01T00:00:00Z, when the run starts.
RunStart == 24 * 60

\* Friday 2024-01-05T12:00:00Z.
DefaultDate == 4 * 24 + 12

StatusDelivered == <<"D", "e", "l", "i", "v", "e", "r", "e", "d">>
StatusCancelled == <<"C", "a", "n", "c", "e", "l", "l", "e", "d">>
StatusCANCELED == <<"C", "A", "N", "C", "E", "L", "E", "D">>
StatusDeliveryFailed ==
    <<"D", "e", "l", "i", "v", "e", "r", "y", " ", "F", "a", "i", "l", "e", "d">>
StatusEmpty == <<>>

StatusSet ==
    {StatusDelivered, StatusCancelled, StatusCANCELED, StatusDeliveryFailed,
     StatusEmpty}

DefaultOrder(i) ==
    [id |-> i, restaurant_name |-> "A", total_value |-> 30000,
     voucher_discount |-> 0, status |-> StatusDelivered, date |-> DefaultDate,
     items |-> <<[name |-> <<"a">>, quantity |-> 1]>>,
     payment_method |-> "Card"]

StatusLists ==
    {[i \in DOMAIN s |-> [DefaultOrder(i) EXCEPT !.status = s[i]]] :
        s \in SeqsUpTo(StatusSet, MaxOrders)}

ValueSet == {10000, 20000, 25000, 30000, 40000, 40001}

\* The permutations of 1..n.
Perms(n) == {f \in [1..n -> 1..n] : \A a, b \in 1..n : a # b => f[a] # f[b]}

\* The values 100, 200, 300, 400 in every order.
FourValues == <<10000, 20000, 30000, 40000>>

ValueLists ==
    {[i \in DOMAIN s |-> [DefaultOrder(i) EXCEPT !.total_value = s[i]]] :
        s \in SeqsUpTo(ValueSet, MaxOrders)
              \cup {[i \in 1..4 |-> FourValues[f[i]]] : f \in Perms(4)}}

\* Eleven orders at eleven different restaurants.
ManyRestaurants ==
    <<"R01", "R02", "R03", "R04", "R05", "R06", "R07", "R08", "R09", "R10", "R11">>

RestaurantSet == {"A", "B", "7", "R11"}

RestaurantLists ==
    {[i \in DOMAIN s |-> [DefaultOrder(i) EXCEPT !.restaurant_name = s[i]]] :
        s \in {base \o extra :
                base \in {<<>>, ManyRestaurants},
                extra \in SeqsUpTo(RestaurantSet, MaxOrders)}}

PaymentSet == {"Card", "bKash", "Cash on Delivery", "Nagad"}

PaymentLists ==
    {[i \in DOMAIN s |-> [DefaultOrder(i) EXCEPT !.payment_method = s[i]]] :
        s \in SeqsUpTo(PaymentSet, MaxOrders)}

\* Tue 2 Jan 12:00Z, Fri 5 Jan 12:00Z, Fri 5 Jan 20:00Z, Sat 6 Jan 12:00Z,
\* Sun 7 Jan 12:00Z, and a string that does not parse.
DateSet ==
    {1 * 24 + 12, 4 * 24 + 12, 4 * 24 + 20, 5 * 24 + 12, 6 * 24 + 12,
     InvalidDateString}

DateLists ==
    {[i \in DOMAIN s |-> [DefaultOrder(i) EXCEPT !.date = s[i]]] :
        s \in SeqsUpTo(DateSet, MaxOrders)}

\* A cancelled order with an unparseable date, a delivered one with an
\* unparseable date, a delivered one with a good date.
MixedSet ==
    {[status |-> StatusCancelled, date |-> InvalidDateString],
     [status |-> StatusDelivered, date |-> InvalidDateString],
     [status |-> StatusDelivered, date |-> DefaultDate]}

MixedLists ==
    {[i \in DOMAIN s |->
        [DefaultOrder(i) EXCEPT !.status = s[i].status, !.date = s[i].date]] :
        s \in SeqsUpTo(MixedSet, MaxOrders)}

\* The end-to-end scenario: (A, 300, voucher 50, 2024-01-05T12:00Z),
\* (A, 200, 2024-01-12T19:00Z), (B, 500, 2024-02-01T08:00Z), in any order.
ScenarioOrders ==
    <<[DefaultOrder(1) EXCEPT !.voucher_discount = 5000],
      [DefaultOrder(2) EXCEPT !.total_value = 20000, !.date = 11 * 24 + 19],
      [DefaultOrder(3) EXCEPT !.restaurant_name = "B", !.total_value = 50000,
                              !.date = 31 * 24 + 8]>>

ScenarioLists == {[i \in 1..3 |-> ScenarioOrders[f[i]]] : f \in Perms(3)}

RawDateSet ==
    {[ordered_at |-> DefaultDate, createdAt |-> AbsentField,
      delivery_date |-> AbsentField],
     [ordered_at |-> AbsentField, createdAt |-> 5 * 24 + 12,
      delivery_date |-> 6 * 24 + 12],
     [ordered_at |-> InvalidDateString, createdAt |-> DefaultDate,
      delivery_date |-> AbsentField],
     [ordered_at |-> AbsentField, createdAt |-> AbsentField,
      delivery_date |-> AbsentField]}

RawLists ==
    {[i \in DOMAIN s |->
        [code |-> i, ordered_at |-> s[i].ordered_at, createdAt |-> s[i].createdAt,
         delivery_date |-> s[i].delivery_date, status |-> StatusEmpty]] :
        s \in SeqsUpTo(RawDateSet, MaxOrders) \ {<<>>}}

TzSet == {0, 6}

\* Friday 5 Jan 2024 at 00:00Z, 09:00Z, 18:00Z and 23:00Z: the local hours
\* 0, 9, 18, 23 at offset 0 and 6, 15, 0, 5 at offset +6.
HourDateSet == {4 * 24, 4 * 24 + 9, 4 * 24 + 18, 4 * 24 + 23}

HourLists ==
    {[i \in DOMAIN s |-> [DefaultOrder(i) EXCEPT !.date = s[i]]] :
        s \in SeqsUpTo(HourDateSet, MaxOrders)}

ItemA == [name |-> <<"a">>, quantity |-> 1]
ItemAUpper == [name |-> <<"A", " ">>, quantity |-> 2]
ItemB == [name |-> <<"b">>, quantity |-> 1]
ItemAB == [name |-> <<"a", "|", "b">>, quantity |-> 6]

\* Item lists: [a], [a, a], ["A ", b], [b, a], ["a|b"] and no item.
ItemListSet ==
    {<<ItemA>>, <<ItemA, ItemA>>, <<ItemAUpper, ItemB>>, <<ItemB, ItemA>>,
     <<ItemAB>>, <<>>}

ItemLists ==
    {[i \in DOMAIN s |-> [DefaultOrder(i) EXCEPT !.items = s[i]]] :
        s \in SeqsUpTo(ItemListSet, MaxOrders)}

\* Dates (hours from 2024-01-01T00:00Z) 23 hours, 1 day, 3 days, 8 days,
\* 38 days and 68 days and 1 hour after the first one.
GapDateSet ==
    {100, 100 + 23, 100 + 24, 100 + 72, 100 + 8 * 24, 100 + 38 * 24,
     100 + 68 * 24 + 1}

GapLists ==
    {[i \in DOMAIN s |-> [DefaultOrder(i) EXCEPT !.date = s[i]]] :
        s \in SeqsUpTo(GapDateSet, MaxOrders)}

\* Orders of 200 on 10 Jan, 300 on 20 Jan, 300 on 10 Feb, 330 on 25 Feb,
\* 500 on 20 Feb and 100 on 10 Mar (12:00Z).
TrendSet ==
    {[total_value |-> 20000, date |-> 9 * 24 + 12],
     [total_value |-> 30000, date |-> 19 * 24 + 12],
     [total_value |-> 30000, date |-> 40 * 24 + 12],
     [total_value |-> 33000, date |-> 55 * 24 + 12],
     [total_value |-> 50000, date |-> 50 * 24 + 12],
     [total_value |-> 10000, date |-> 69 * 24 + 12]}

TrendLists ==
    {[i \in DOMAIN s |->
        [DefaultOrder(i) EXCEPT !.total_value = s[i].total_value,
                                !.date = s[i].date]] :
        s \in SeqsUpTo(TrendSet, MaxOrders)}

\* Voucher discounts of up to MaxOrders orders, and five orders of which the
\* first k used a voucher (usage rates 0, 20, 40, 60, 80, 100).
VoucherLists ==
    {[i \in DOMAIN s |-> [DefaultOrder(i) EXCEPT !.voucher_discount = s[i]]] :
        s \in SeqsUpTo({0, 5000}, MaxOrders)
              \cup {[i \in 1..5 |-> IF i <= k THEN 5000 ELSE 0] : k \in 0..5}}

NoResult == [kind |-> "none"]

(***************************************************************************)
(* The rate-limiting middleware of /analyze.                               *)
(***************************************************************************)
RATE_LIMIT == 10
RATE_LIMIT_WINDOW == 60 * 1000

\* The size of rateLimitMap above which expired entries are swept.
CleanupSize == 10000

NoRecord == [count |-> 0, resetTime |-> -1]

NoHeader == <<>>

\* x-forwarded-for as the list of its comma-separated, trimmed addresses.
ForwardedForSet == {NoHeader, <<"1.1.1.1">>, <<"1.1.1.1", "9.9.9.9">>}

RealIpSet == {NoHeader, <<"1.1.1.1">>}

ClientKeys == {"1.1.1.1", "unknown"}

RequestSet ==
    {[method |-> mt, forwardedFor |-> ff, realIp |-> ri] :
        mt \in {"POST", "GET"}, ff \in ForwardedForSet, ri \in RealIpSet}

\* The steps by which the clock is seen to advance, in milliseconds.
ClockSteps == {30000, 30001}

\* x-forwarded-for's first address || x-real-ip || "unknown"
clientIp(req) ==
    IF req.forwardedFor # NoHeader THEN req.forwardedFor[1]
    ELSE IF req.realIp # NoHeader THEN req.realIp[1]
    ELSE "unknown"

\* getRateLimitInfo(ip) at time t: whether the request is allowed, the
\* remaining allowance, and rateLimitMap as the call leaves it.
getRateLimitInfo(ip, map, t) ==
    LET record == map[ip]
        swept ==
            IF Cardinality({k \in DOMAIN map : map[k] # NoRecord}) > CleanupSize
            THEN [k \in DOMAIN map |->
                    IF map[k] # NoRecord /\ map[k].resetTime < t
                    THEN NoRecord ELSE map[k]]
            ELSE map
    IN  IF record = NoRecord \/ record.resetTime < t
        THEN [allowed |-> TRUE, remaining |-> RATE_LIMIT - 1,
              map |-> [swept EXCEPT ![ip] =
                          [count |-> 1, resetTime |-> t + RATE_LIMIT_WINDOW]]]
        ELSE IF record.count >= RATE_LIMIT
        THEN [allowed |-> FALSE, remaining |-> 0, map |-> swept]
        ELSE [allowed |-> TRUE, remaining |-> RATE_LIMIT - (record.count + 1),
              map |-> [swept EXCEPT ![ip].count = record.count + 1]]

NoRetryAfter == "none"

\* middleware(request) on /analyze at time t: the response and rateLimitMap
\* as the call leaves it.
middleware(req, map, t) ==
    IF req.method = "POST"
    THEN
        LET ip == clientIp(req)
            info == getRateLimitInfo(ip, map, t)
        IN  IF ~info.allowed
            THEN [response |-> [status |-> 429, retryAfter |-> "60", limited |-> TRUE,
                                ip |-> ip, remaining |-> 0],
                  map |-> info.map]
            ELSE [response |-> [status |-> 200, retryAfter |-> NoRetryAfter,
                                limited |-> TRUE, ip |-> ip,
                                remaining |-> info.remaining],
                  map |-> info.map]
    ELSE [response |-> [status |-> 200, retryAfter |-> NoRetryAfter,
                        limited |-> FALSE, ip |-> clientIp(req), remaining |-> -1],
          map |-> map]

NoResponse == [status |-> 0]

LimiterInit ==
    /\ rateLimitMap = [k \in ClientKeys |-> NoRecord]
    /\ nowMs = 0
    /\ passed = [k \in ClientKeys |-> <<>>]
    /\ response = NoResponse
    /\ requests = 0

(***************************************************************************)
(* The local cache (lib/cache): CompressionUtils, StorageAdapter and       *)
(* CacheManager over the browser's localStorage.                           *)
(*                                                                         *)
(* Strings that are compressed or parsed are sequences of UTF-16 code      *)
(* units (34 is the double quote, 97 and 98 are "a" and "b", 8364 is the   *)
(* euro sign, a character above U+00FF); storage keys are strings.  A      *)
(* stored item is a record standing for the raw string at that key: a      *)
(* serialized CacheEntry, text that is not JSON, the analyze page's saved  *)
(* result, or the availability probe's value.  Times are milliseconds.     *)
(***************************************************************************)
HOUR == 60 * 60 * 1000

CURRENT_VERSION == 2

\* The managers of the model are constructed with compressionThreshold 4
\* (1024 when the configuration leaves it out), so that short values of the
\* model are stored compressed as long ones are in the program.
compressionThreshold == 4

STORAGE_KEY == "foodpanda_analytics_data"

testKey == "__storage_test__"

\* The namespaces of cache, analyticsCache, ordersCache and preferencesCache,
\* in the order clearAllCaches goes through them.
Namespaces ==
    <<"foodpanda_app", "foodpanda_analytics", "foodpanda_orders", "foodpanda_prefs">>

NamespaceSet == Range(Namespaces)

ttlMs(ns) ==
    CASE ns = "foodpanda_app" -> 24 * HOUR
      [] ns = "foodpanda_analytics" -> 4 * HOUR
      [] ns = "foodpanda_orders" -> 1 * HOUR
      [] ns = "foodpanda_prefs" -> 7 * 24 * HOUR

keyPrefix(ns) == ns \o ":"

getFullKey(ns, key) == keyPrefix(ns) \o key

startsWith(str, prefix) ==
    Len(str) >= Len(prefix) /\ SubSeq(str, 1, Len(prefix)) = prefix

\* What get and getTTL return for nothing, and a thrown exception.
Null == <<-1>>
Thrown == <<-2>>

\* dict[s] of compress: the 256 single characters, then the strings added.
UndefinedCode == -1

dictCode(s, added) ==
    IF Len(s) = 1 /\ s[1] \in 0..255 THEN s[1]
    ELSE IF \E i \in DOMAIN added : added[i] = s
         THEN 255 + (CHOOSE i \in DOMAIN added : added[i] = s)
         ELSE UndefinedCode

\* The loop of compress from character i on, then the push of the last w.
RECURSIVE compressFrom(_, _, _, _, _)
compressFrom(str, i, w, added, codes) ==
    IF i > Len(str)
    THEN IF w # <<>> THEN Append(codes, dictCode(w, added)) ELSE codes
    ELSE LET c == str[i]
             wc == Append(w, c)
         IN  IF dictCode(wc, added) # UndefinedCode
             THEN compressFrom(str, i + 1, wc, added, codes)
             ELSE compressFrom(str, i + 1, <<c>>, Append(added, wc),
                               Append(codes, dictCode(w, added)))

\* String.fromCharCode: ToUint16 of the code, 0 for undefined.
fromCharCode(code) == IF code = UndefinedCode THEN 0 ELSE code % 65536

compress(str) ==
    IF Len(str) = 0 THEN str
    ELSE LET codes == compressFrom(str, 1, <<>>, <<>>, <<>>)
         IN  [i \in DOMAIN codes |-> fromCharCode(codes[i])]

\* The loop of decompress from code i on; dict[k] is the character k below
\* 256 and added[k - 255] above.
RECURSIVE decompressFrom(_, _, _, _, _)
decompressFrom(data, i, w, added, out) ==
    IF i > Len(data) THEN out
    ELSE LET k == data[i]
             dictSize == 256 + Len(added)
         IN  IF k >= dictSize + 1 THEN Thrown
             ELSE LET entry == IF k < 256 THEN <<k>>
                               ELSE IF k < dictSize THEN added[k - 255]
                               ELSE w \o <<w[1]>>
                  IN  decompressFrom(data, i + 1, entry,
                                     Append(added, w \o <<entry[1]>>),
                                     out \o entry)

decompress(compressed) ==
    IF Len(compressed) = 0 THEN compressed
    ELSE decompressFrom(compressed, 2, <<compressed[1]>>, <<>>,
                        <<compressed[1]>>)

\* JSON.stringify of a string value none of whose characters needs an
\* escape: the characters between double quotes.
JSONstringify(val) == <<34>> \o val \o <<34>>

\* JSON.parse of such a text: a SyntaxError unless it is a double-quoted
\* string holding no control character, quote or backslash.
JSONparse(text) ==
    IF /\ Len(text) >= 2
       /\ text[1] = 34 /\ text[Len(text)] = 34
       /\ \A i \in 2..(Len(text) - 1) : text[i] >= 32 /\ text[i] \notin {34, 92}
    THEN SubSeq(text, 2, Len(text) - 1)
    ELSE Thrown

\* getItem's null.
Missing == [kind |-> "missing"]

\* Text that JSON.parse rejects.
Corrupt == [kind |-> "corrupt"]

\* The JSON text saveToStorage writes: analytics, orderCount, savedAt.
SavedData == [kind |-> "saved"]

CacheEntry(val, t, exp, ver, comp) ==
    [kind |-> "entry", value |-> val, timestamp |-> t, expiry |-> exp,
     version |-> ver, compressed |-> comp]

\* The length of the raw string, in units of the probe's 32 characters (a
\* serialized entry is longer than the probe, and grows with its value).
ItemLength(item) ==
    CASE item.kind = "missing" -> 0
      [] item.kind = "entry" -> 2 + Len(item.value)
      [] item.kind = "saved" -> 2
      [] OTHER -> 1

RECURSIVE SumOver(_, _)
SumOver(f, S) ==
    IF S = {} THEN 0
    ELSE LET x == CHOOSE y \in S : TRUE
         IN  f[x] + SumOver(f, S \ {x})

UsedSpace(store) ==
    SumOver([k \in DOMAIN store |-> ItemLength(store[k])], DOMAIN store)

\* localStorage.setItem: a QuotaExceededError when the item does not fit.
fits(store, k, item) ==
    UsedSpace(store) - ItemLength(store[k]) + ItemLength(item) <= Quota

\* StorageAdapter.isAvailable (window is defined): writes and removes the
\* probe; false when the write throws.
isAvailable(store) ==
    IF fits(store, testKey, Corrupt)
    THEN [ret |-> TRUE, storage |-> [store EXCEPT ![testKey] = Missing]]
    ELSE [ret |-> FALSE, storage |-> store]

getItem(store, k) ==
    LET p == isAvailable(store)
    IN  [ret |-> IF p.ret THEN p.storage[k] ELSE Missing, storage |-> p.storage]

removeItem(store, k) ==
    LET p == isAvailable(store)
    IN  [ret |-> p.ret,
         storage |-> IF p.ret THEN [p.storage EXCEPT ![k] = Missing] ELSE p.storage]

getAllKeys(store) ==
    LET p == isAvailable(store)
    IN  [ret |-> IF p.ret THEN {k \in DOMAIN store : p.storage[k] # Missing} ELSE {},
         storage |-> p.storage]

\* What prune removes: corrupted, expired or version-mismatched raw text.
isPrunable(item, t) ==
    \/ item.kind # "entry"
    \/ t > item.expiry
    \/ item.version # CURRENT_VERSION

\* CacheManager.prune: ret is prunedCount.  Once getAllKeys found storage
\* available the later probes succeed too, removals only freeing space.
prune(store, ns, t) ==
    LET all == getAllKeys(store)
        gone == {k \in all.ret :
                    /\ startsWith(k, keyPrefix(ns))
                    /\ isPrunable(all.storage[k], t)}
    IN  [ret |-> Cardinality(gone),
         storage |-> [k \in DOMAIN store |->
                        IF k \in gone THEN Missing ELSE all.storage[k]]]

\* CacheManager.clear: ret is clearedCount.
clear(store, ns) ==
    LET all == getAllKeys(store)
        gone == {k \in all.ret : startsWith(k, keyPrefix(ns))}
    IN  [ret |-> Cardinality(gone),
         storage |-> [k \in DOMAIN store |->
                        IF k \in gone THEN Missing ELSE all.storage[k]]]

remove(store, ns, key) == removeItem(store, getFullKey(ns, key))

\* CacheManager.get at time t.
get(store, ns, key, t) ==
    LET r == getItem(store, getFullKey(ns, key))
        item == r.ret
        removed == [ret |-> Null, storage |-> remove(r.storage, ns, key).storage]
    IN  IF item = Missing THEN [ret |-> Null, storage |-> r.storage]
        ELSE IF item.kind # "entry" THEN removed
        ELSE IF item.version # CURRENT_VERSION THEN removed
        ELSE IF t > item.expiry THEN removed
        ELSE IF item.compressed
             THEN LET text == decompress(item.value)
                      val == IF text = Thrown THEN Thrown ELSE JSONparse(text)
                  IN  IF val = Thrown THEN removed
                      ELSE [ret |-> val, storage |-> r.storage]
             ELSE [ret |-> item.value, storage |-> r.storage]

has(store, ns, key, t) ==
    LET g == get(store, ns, key, t)
    IN  [ret |-> g.ret # Null, storage |-> g.storage]

\* customTtlMs left out.
NoTtl == -1

\* The entry set builds at time t (enableCompression is on in all four).
entryOf(ns, val, customTtlMs, t) ==
    LET ttl == IF customTtlMs = NoTtl THEN ttlMs(ns) ELSE customTtlMs
        stringified == JSONstringify(val)
        compressed == Len(stringified) > compressionThreshold
    IN  CacheEntry(IF compressed THEN compress(stringified) ELSE val,
                   t, t + ttl, CURRENT_VERSION, compressed)

\* StorageAdapter.setItem with set's onQuotaExceeded callback (prune).
setItem(store, ns, k, item, t) ==
    LET p == isAvailable(store)
    IN  IF ~p.ret THEN [ret |-> FALSE, storage |-> p.storage]
        ELSE IF fits(p.storage, k, item)
        THEN [ret |-> TRUE, storage |-> [p.storage EXCEPT ![k] = item]]
        ELSE [ret |-> FALSE, storage |-> prune(p.storage, ns, t).storage]

\* CacheManager.set at time t.
set(store, ns, key, val, customTtlMs, t) ==
    setItem(store, ns, getFullKey(ns, key), entryOf(ns, val, customTtlMs, t), t)

\* CacheManager.getTTL at time t.
getTTL(store, ns, key, t) ==
    LET r == getItem(store, getFullKey(ns, key))
        item == r.ret
    IN  [ret |-> IF item = Missing THEN Null
                 ELSE IF item.kind # "entry" THEN Null
                 ELSE IF item.expiry - t > 0 THEN <<item.expiry - t>>
                 ELSE Null,
         storage |-> r.storage]

\* The lazy singleton of a namespace: its constructor prunes.
instance(store, ns, built, t) ==
    IF ns \in built THEN store ELSE prune(store, ns, t).storage

\* clearAllCaches from the i-th namespace on.
RECURSIVE clearFrom(_, _, _, _)
clearFrom(store, i, built, t) ==
    IF i > Len(Namespaces) THEN store
    ELSE clearFrom(clear(instance(store, Namespaces[i], built, t), Namespaces[i]).storage,
                   i + 1, built, t)

clearAllCaches(store, built, t) == clearFrom(store, 1, built, t)

\* saveToStorage of the analyze page: a failed write is logged and dropped.
saveToStorage(store) ==
    IF fits(store, STORAGE_KEY, SavedData)
    THEN [store EXCEPT ![STORAGE_KEY] = SavedData]
    ELSE store

\* clearStorage of the analyze page.
clearStorage(store) == [store EXCEPT ![STORAGE_KEY] = Missing]

(***************************************************************************)
(* The cache in use: the page's code calls the four pre-configured caches  *)
(* and the analyze page's storage helpers while time passes.  localStorage *)
(* starts with what an earlier visit may have left.                        *)
(***************************************************************************)
\* The CACHE_KEYS used with each cache.
KeysOf(ns) ==
    CASE ns = "foodpanda_app" -> {"last_sync_timestamp"}
      [] ns = "foodpanda_analytics" -> {"full_analytics"}
      [] ns = "foodpanda_orders" -> {"all_orders", "recent_orders"}
      [] ns = "foodpanda_prefs" -> {"user_preferences"}

StorageKeys ==
    UNION {{getFullKey(ns, key) : key \in KeysOf(ns)} : ns \in NamespaceSet}
        \cup {STORAGE_KEY, testKey}

\* What the page asks set to store: "a" for an hour, and "aaa" and
\* "a" + euro sign + "a" for the cache's own time to live.
WriteSet ==
    {[value |-> <<97>>, customTtlMs |-> HOUR],
     [value |-> <<97, 97, 97>>, customTtlMs |-> NoTtl],
     [value |-> <<97, 8364, 97>>, customTtlMs |-> NoTtl]}

CacheStart == 10 * HOUR

\* What an earlier visit, or the hours the page has been open, may have
\* left under a key: in foodpanda_app an entry still valid, in
\* foodpanda_analytics and under recent_orders one expired since, under
\* all_orders one of the earlier schema version, in foodpanda_prefs text
\* that does not parse, and the saved result of the analyze page.
LeftBehind(k) ==
    IF k = getFullKey("foodpanda_app", "last_sync_timestamp")
    THEN {Missing, CacheEntry(<<97>>, 0, 24 * HOUR, CURRENT_VERSION, FALSE)}
    ELSE IF k = getFullKey("foodpanda_analytics", "full_analytics")
    THEN {Missing, CacheEntry(<<98>>, 0, 4 * HOUR, CURRENT_VERSION, FALSE)}
    ELSE IF k = getFullKey("foodpanda_orders", "recent_orders")
    THEN {Missing, CacheEntry(<<98>>, 8 * HOUR, 9 * HOUR, CURRENT_VERSION, FALSE)}
    ELSE IF k = getFullKey("foodpanda_orders", "all_orders")
    THEN {Missing, CacheEntry(<<98>>, 9 * HOUR, 10 * HOUR, 1, FALSE)}
    ELSE IF k = getFullKey("foodpanda_prefs", "user_preferences")
    THEN {Missing, Corrupt}
    ELSE IF k = STORAGE_KEY THEN {Missing, SavedData}
    ELSE {Missing}

NoSet == [value |-> Null, at |-> -1, ttl |-> -1]

NoOp ==
    [op |-> "none", ns |-> "", key |-> "", value |-> Null, ttl |-> NoTtl,
     ret |-> Null, before |-> Missing, at |-> -1]

CacheInit ==
    /\ localStorage \in {s \in [StorageKeys -> UNION {LeftBehind(k) : k \in StorageKeys}] :
                            /\ \A k \in StorageKeys : s[k] \in LeftBehind(k)
                            /\ UsedSpace(s) <= Quota}
    /\ cacheNow = CacheStart
    /\ made \in {{}, NamespaceSet}
    /\ written = [k \in StorageKeys |-> NoSet]
    /\ lastOp = NoOp
    /\ cacheOps = 0

\* The history of successful writes after an operation that left the
\* storage as store: a key deleted by remove or clear is no longer written.
forgetting(store, keys) ==
    [k \in StorageKeys |->
        IF k \in keys /\ store[k] = Missing THEN NoSet ELSE written[k]]

prefixed(ns) == {k \in StorageKeys : startsWith(k, keyPrefix(ns))}

Set(ns, key, val, customTtlMs) ==
    /\ cacheOps < MaxCacheOps
    /\ LET store == instance(localStorage, ns, made, cacheNow)
           fullKey == getFullKey(ns, key)
           r == set(store, ns, key, val, customTtlMs, cacheNow)
       IN  /\ localStorage' = r.storage
           /\ lastOp' = [op |-> "set", ns |-> ns, key |-> key, value |-> val,
                         ttl |-> customTtlMs, ret |-> r.ret,
                         before |-> store[fullKey], at |-> cacheNow]
           /\ written' =
                IF r.ret
                THEN [written EXCEPT ![fullKey] =
                        [value |-> val, at |-> cacheNow,
                         ttl |-> r.storage[fullKey].expiry - cacheNow]]
                ELSE written
    /\ made' = made \cup {ns}
    /\ cacheOps' = cacheOps + 1
    /\ UNCHANGED cacheNow
    /\ UNCHANGED besidesCache

Get(ns, key) ==
    /\ cacheOps < MaxCacheOps
    /\ LET store == instance(localStorage, ns, made, cacheNow)
           r == get(store, ns, key, cacheNow)
       IN  /\ localStorage' = r.storage
           /\ lastOp' = [op |-> "get", ns |-> ns, key |-> key, value |-> Null,
                         ttl |-> NoTtl, ret |-> r.ret,
                         before |-> store[getFullKey(ns, key)], at |-> cacheNow]
    /\ made' = made \cup {ns}
    /\ cacheOps' = cacheOps + 1
    /\ UNCHANGED <<cacheNow, written>>
    /\ UNCHANGED besidesCache

Has(ns, key) ==
    /\ cacheOps < MaxCacheOps
    /\ LET store == instance(localStorage, ns, made, cacheNow)
           r == has(store, ns, key, cacheNow)
       IN  /\ localStorage' = r.storage
           /\ lastOp' = [op |-> "has", ns |-> ns, key |-> key, value |-> Null,
                         ttl |-> NoTtl, ret |-> r.ret,
                         before |-> store[getFullKey(ns, key)], at |-> cacheNow]
    /\ made' = made \cup {ns}
    /\ cacheOps' = cacheOps + 1
    /\ UNCHANGED <<cacheNow, written>>
    /\ UNCHANGED besidesCache

GetTTL(ns, key) ==
    /\ cacheOps < MaxCacheOps
    /\ LET store == instance(localStorage, ns, made, cacheNow)
           r == getTTL(store, ns, key, cacheNow)
       IN  /\ localStorage' = r.storage
           /\ lastOp' = [op |-> "getTTL", ns |-> ns, key |-> key, value |-> Null,
                         ttl |-> NoTtl, ret |-> r.ret,
                         before |-> store[getFullKey(ns, key)], at |-> cacheNow]
    /\ made' = made \cup {ns}
    /\ cacheOps' = cacheOps + 1
    /\ UNCHANGED <<cacheNow, written>>
    /\ UNCHANGED besidesCache

Remove(ns, key) ==
    /\ cacheOps < MaxCacheOps
    /\ LET store == instance(localStorage, ns, made, cacheNow)
           r == remove(store, ns, key)
       IN  /\ localStorage' = r.storage
           /\ lastOp' = [op |-> "remove", ns |-> ns, key |-> key, value |-> Null,
                         ttl |-> NoTtl, ret |-> r.ret,
                         before |-> store[getFullKey(ns, key)], at |-> cacheNow]
           /\ written' = forgetting(r.storage, {getFullKey(ns, key)})
    /\ made' = made \cup {ns}
    /\ cacheOps' = cacheOps + 1
    /\ UNCHANGED cacheNow
    /\ UNCHANGED besidesCache

Prune(ns) ==
    /\ cacheOps < MaxCacheOps
    /\ LET store == instance(localStorage, ns, made, cacheNow)
           r == prune(store, ns, cacheNow)
       IN  /\ localStorage' = r.storage
           /\ lastOp' = [op |-> "prune", ns |-> ns, key |-> "", value |-> Null,
                         ttl |-> NoTtl, ret |-> r.ret, before |-> Missing,
                         at |-> cacheNow]
    /\ made' = made \cup {ns}
    /\ cacheOps' = cacheOps + 1
    /\ UNCHANGED <<cacheNow, written>>
    /\ UNCHANGED besidesCache

Clear(ns) ==
    /\ cacheOps < MaxCacheOps
    /\ LET store == instance(localStorage, ns, made, cacheNow)
           r == clear(store, ns)
       IN  /\ localStorage' = r.storage
           /\ lastOp' = [op |-> "clear", ns |-> ns, key |-> "", value |-> Null,
                         ttl |-> NoTtl, ret |-> r.ret, before |-> Missing,
                         at |-> cacheNow]
           /\ written' = forgetting(r.storage, prefixed(ns))
    /\ made' = made \cup {ns}
    /\ cacheOps' = cacheOps + 1
    /\ UNCHANGED cacheNow
    /\ UNCHANGED besidesCache

ClearAllCaches ==
    /\ cacheOps < MaxCacheOps
    /\ LET store == clearAllCaches(localStorage, made, cacheNow)
       IN  /\ localStorage' = store
           /\ written' = forgetting(store, UNION {prefixed(ns) : ns \in NamespaceSet})
    /\ lastOp' = [NoOp EXCEPT !.op = "clearAllCaches", !.at = cacheNow]
    /\ made' = NamespaceSet
    /\ cacheOps' = cacheOps + 1
    /\ UNCHANGED cacheNow
    /\ UNCHANGED besidesCache

SaveToStorage ==
    /\ cacheOps < MaxCacheOps
    /\ localStorage' = saveToStorage(localStorage)
    /\ lastOp' = [NoOp EXCEPT !.op = "saveToStorage", !.at = cacheNow]
    /\ cacheOps' = cacheOps + 1
    /\ UNCHANGED <<cacheNow, made, written>>
    /\ UNCHANGED besidesCache

ClearStorage ==
    /\ cacheOps < MaxCacheOps
    /\ localStorage' = clearStorage(localStorage)
    /\ lastOp' = [NoOp EXCEPT !.op = "clearStorage", !.at = cacheNow]
    /\ cacheOps' = cacheOps + 1
    /\ UNCHANGED <<cacheNow, made, written>>
    /\ UNCHANGED besidesCache

\* Date.now() advancing by an hour.
AdvanceCacheClock ==
    /\ cacheNow < CacheStart + MaxCacheHours * HOUR
    /\ cacheNow' = cacheNow + HOUR
    /\ UNCHANGED <<localStorage, made, written, lastOp, cacheOps>>
    /\ UNCHANGED besidesCache

(***************************************************************************)
(* CacheManager.getOrSet of ordersCache, called by Callers.  A call runs   *)
(* up to its await in one step (get, and on a miss the start of the        *)
(* fetcher) and from the fetcher's settlement to its return in another.    *)
(***************************************************************************)
Callers == {1, 2}

\* What a fetcher may resolve with (the upstream data may change between
\* two fetches); Thrown is its rejection.
FetchedSet == {<<97>>, <<98>>}

NoCall == [pc |-> "idle", key |-> "", ret |-> Null, ranFetcher |-> FALSE,
           during |-> {}]

\* The callers whose fetcher for the key is in flight.
awaiting(key) ==
    {c \in Callers : getOrSetCalls[c].pc = "awaiting" /\ getOrSetCalls[c].key = key}

GetOrSetCall(c, ns, key) ==
    /\ getOrSetCalls[c].pc = "idle"
    /\ LET store == instance(localStorage, ns, made, cacheNow)
           cached == get(store, ns, key, cacheNow)
       IN  /\ localStorage' = cached.storage
           /\ IF cached.ret # Null
              THEN /\ getOrSetCalls' =
                        [getOrSetCalls EXCEPT ![c] =
                            [pc |-> "returned", key |-> key, ret |-> cached.ret,
                             ranFetcher |-> FALSE, during |-> awaiting(key)]]
                   /\ UNCHANGED fetcherRuns
              ELSE /\ getOrSetCalls' =
                        [getOrSetCalls EXCEPT ![c] =
                            [pc |-> "awaiting", key |-> key, ret |-> Null,
                             ranFetcher |-> TRUE, during |-> awaiting(key)]]
                   /\ fetcherRuns' = fetcherRuns + 1
    /\ made' = made \cup {ns}
    /\ UNCHANGED <<cacheNow, written, lastOp, cacheOps>>
    /\ UNCHANGED besidesGetOrSet

GetOrSetSettle(c, ns, fresh) ==
    /\ getOrSetCalls[c].pc = "awaiting"
    /\ IF fresh = Thrown
       THEN /\ getOrSetCalls' = [getOrSetCalls EXCEPT ![c].pc = "rejected"]
            /\ UNCHANGED localStorage
       ELSE /\ localStorage' =
                  set(localStorage, ns, getOrSetCalls[c].key, fresh, NoTtl,
                      cacheNow).storage
            /\ getOrSetCalls' =
                  [getOrSetCalls EXCEPT ![c].pc = "returned", ![c].ret = fresh]
    /\ UNCHANGED <<cacheNow, made, written, lastOp, cacheOps, fetcherRuns>>
    /\ UNCHANGED besidesGetOrSet

(***************************************************************************)
(* ClearCacheButton.  A click runs handleClick to its end (the 'clearing'  *)
(* state it sets is replaced by 'success' or 'error' before the component  *)
(* renders again); the callbacks it hands to setTimeout run later, each    *)
(* once.  The Cancel button is rendered while state is 'confirming' and,   *)
(* being a child of AnimatePresence with an exit animation, stays in the   *)
(* page until that animation has ended.                                    *)
(***************************************************************************)
ButtonState == {"idle", "confirming", "clearing", "success", "error"}

\* What a pending timer does: setState('idle'), or window.location.reload().
TimerKinds == {"toIdle", "reload"}

NoTimers == [k \in TimerKinds |-> 0]

NoEvent == [kind |-> "none", met |-> "idle"]

\* The try block of handleClick: it ends normally, or onCacheCleared throws.
TryOutcomes == {"done", "thrown"}

handleClick(outcome) ==
    /\ events < MaxEvents
    /\ IF state = "idle"
       THEN /\ state' = "confirming"
            /\ cancelShown' = TRUE
            /\ UNCHANGED <<timers, clears, localStorage, made>>
       ELSE IF state = "confirming"
       THEN /\ localStorage' = clearAllCaches(localStorage, made, cacheNow)
            /\ made' = NamespaceSet
            /\ clears' = clears + 1
            /\ IF outcome = "done"
               THEN /\ state' = "success"
                    /\ timers' =
                          IF reloadOnClear
                          THEN [timers EXCEPT !["reload"] = @ + 1]
                          ELSE [timers EXCEPT !["toIdle"] = @ + 1]
               ELSE /\ state' = "error"
                    /\ timers' = [timers EXCEPT !["toIdle"] = @ + 1]
            /\ UNCHANGED cancelShown
       ELSE UNCHANGED <<state, cancelShown, timers, clears, localStorage, made>>
    /\ lastEvent' = [kind |-> "click", met |-> state]
    /\ events' = events + 1
    /\ UNCHANGED <<reloadOnClear, cacheNow, written, lastOp, cacheOps>>
    /\ UNCHANGED besidesButton

handleCancel ==
    /\ events < MaxEvents
    /\ cancelShown
    /\ state' = "idle"
    /\ lastEvent' = [kind |-> "cancel", met |-> state]
    /\ events' = events + 1
    /\ UNCHANGED <<reloadOnClear, timers, cancelShown, clears>>
    /\ UNCHANGED cacheVars
    /\ UNCHANGED besidesButton

\* The exit animation of the Cancel button ends.
ExitComplete ==
    /\ cancelShown
    /\ state # "confirming"
    /\ cancelShown' = FALSE
    /\ UNCHANGED <<state, reloadOnClear, timers, clears, lastEvent, events>>
    /\ UNCHANGED cacheVars
    /\ UNCHANGED besidesButton

\* A pending setTimeout callback runs.  A reload starts the page afresh.
TimerFires(kind) ==
    /\ events < MaxEvents
    /\ timers[kind] > 0
    /\ IF kind = "toIdle"
       THEN /\ state' = "idle"
            /\ timers' = [timers EXCEPT ![kind] = @ - 1]
            /\ UNCHANGED <<cancelShown, made>>
       ELSE /\ state' = "idle"
            /\ timers' = NoTimers
            /\ cancelShown' = FALSE
            /\ made' = {}
    /\ lastEvent' = [kind |-> kind, met |-> state]
    /\ events' = events + 1
    /\ UNCHANGED <<reloadOnClear, clears>>
    /\ UNCHANGED <<localStorage, cacheNow, written, lastOp, cacheOps>>
    /\ UNCHANGED besidesButton

\* The button as it mounts.
ButtonMounted ==
    /\ state = "idle"
    /\ timers = NoTimers
    /\ cancelShown = FALSE
    /\ clears = 0
    /\ lastEvent = NoEvent
    /\ events = 0

\* No button in the page.
ButtonIdle == ButtonMounted /\ reloadOnClear = FALSE

(***************************************************************************)
(* The server action processToken and foodpandaService.fetchOrders.  A     *)
(* token is a sequence of characters.  The provider answers a page request *)
(* with the orders of its history from the offset on, at most as many as   *)
(* the request's limit, or the request fails.                              *)
(***************************************************************************)
PAGE_SIZE == 20
MAX_PAGES == 10
TokenMaxLength == 2000

Base64Url ==
    {"A", "B", "C", "D", "E", "F", "G", "H", "I", "J", "K", "L", "M", "N", "O",
     "P", "Q", "R", "S", "T", "U", "V", "W", "X", "Y", "Z", "a", "b", "c", "d",
     "e", "f", "g", "h", "i", "j", "k", "l", "m", "n", "o", "p", "q", "r", "s",
     "t", "u", "v", "w", "x", "y", "z", "0", "1", "2", "3", "4", "5", "6", "7",
     "8", "9", "_", "-"}

\* token.replace(/^Bearer\s+/i, ""): the token without a leading "Bearer"
\* (in any case) and the blanks after it, when at least one blank follows.
stripBearer(t) ==
    LET word == <<"b", "e", "a", "r", "e", "r">>
        n == Len(word)
    IN  IF Len(t) > n /\ toLowerCase(SubSeq(t, 1, n)) = word /\ t[n + 1] = " "
        THEN IF \A i \in (n + 1)..Len(t) : t[i] = " " THEN <<>>
             ELSE SubSeq(t,
                         CHOOSE i \in (n + 1)..Len(t) :
                             t[i] # " " /\ \A j \in (n + 1)..(i - 1) : t[j] = " ",
                         Len(t))
        ELSE t

cleanToken(t) == trim(stripBearer(t))

\* /^[A-Za-z0-9_-]+\.[A-Za-z0-9_-]+\.[A-Za-z0-9_-]+$/.test(t)
jwtPattern(t) ==
    LET dots == {i \in DOMAIN t : t[i] = "."}
    IN  /\ Cardinality(dots) = 2
        /\ \A i \in DOMAIN t \ dots : t[i] \in Base64Url
        /\ 1 \notin dots
        /\ Len(t) \notin dots
        /\ \A i \in dots : i + 1 \notin dots

\* A schema with the length checks only.
TokenIssuesOfLengthOnly(t) ==
    (IF Len(t) < 1 THEN <<"Token is required">> ELSE <<>>)
    \o (IF Len(t) > TokenMaxLength THEN <<"Token is too long">> ELSE <<>>)

\* TokenSchema.safeParse: the messages of the checks that fail, in the
\* order of the schema (<<>> when the token is valid).
TokenIssues(t) ==
    (IF Len(t) < 1 THEN <<"Token is required">> ELSE <<>>)
    \o (IF Len(t) > TokenMaxLength THEN <<"Token is too long">> ELSE <<>>)
    \o (IF ~jwtPattern(cleanToken(t))
        THEN <<"Invalid token format. Please provide a valid bearer token.">>
        ELSE <<>>)

safeErrors ==
    ("Invalid or expired bearer token" :>
        "Invalid or expired token. Please get a fresh token from FoodPanda.")
    @@ ("Failed to fetch orders" :>
        "Unable to connect to FoodPanda. Please try again later.")
    @@ ("Request timed out. Please try again." :>
        "Request timed out. Please try again.")

FallbackError == "Failed to process token. Please check your token and try again."

NoData == [kind |-> "none"]

\* What processToken's catch block returns for an error with the message.
caught(message) ==
    [success |-> FALSE,
     error |-> IF message \in DOMAIN safeErrors THEN safeErrors[message]
               ELSE FallbackError,
     data |-> NoData]

\* processToken from the return of fetchOrders on.
afterFetch(fetchedOrders, z) ==
    IF Len(fetchedOrders) = 0
    THEN [analyzed |-> 0,
          state |-> [success |-> FALSE, error |-> "No orders found for this token",
                     data |-> NoData]]
    ELSE LET r == analyze(fetchedOrders, z).ret
         IN  [analyzed |-> 1,
              state |-> IF r.kind = "throw" THEN caught(r.message)
                        ELSE [success |-> TRUE, error |-> "",
                              data |-> [analytics |-> r.value,
                                        orderCount |-> Len(fetchedOrders)]]]

\* A paging by page number in place of item offset.
nextOffsetByPageNumber(off, items) == off + 1

\* offset += items.length
nextOffset(off, items) == off + Len(items)

\* The provider's answer to a page request that succeeds.
pageItems(hist, off, limit) == SubSeq(hist, off + 1, Min(off + limit, Len(hist)))

\* The provider's i-th order: the two latest ones were delivered, the ones
\* before them cancelled.
DeliveredLately == 2

rawOrder(i) ==
    [code |-> i, ordered_at |-> i, createdAt |-> AbsentField,
     delivery_date |-> AbsentField,
     status |-> IF i <= DeliveredLately THEN StatusEmpty ELSE StatusCancelled]

HistorySizes ==
    {0, 1, PAGE_SIZE - 1, PAGE_SIZE, PAGE_SIZE + 1, 2 * PAGE_SIZE,
     MAX_PAGES * PAGE_SIZE - 1, MAX_PAGES * PAGE_SIZE,
     MAX_PAGES * PAGE_SIZE + 1, MaxHistory}

Repeated(c, n) == [i \in 1..n |-> c]

ThreeParts == <<"a", "-", "1", ".", "B", "_", ".", "c">>

BearerPrefix == <<"B", "e", "a", "r", "e", "r", " ">>

TokenSet ==
    {<<>>,
     ThreeParts,
     BearerPrefix \o ThreeParts,
     <<"b", "e", "a", "r", "e", "r", " ", " ">> \o ThreeParts \o <<" ">>,
     <<" ">> \o ThreeParts,
     <<"B", "e", "a", "r", "e", "r">> \o ThreeParts,
     BearerPrefix,
     <<"a", ".", "b">>,
     <<"a", ".", ".", "c">>,
     <<"a", ".", "b", ".", "c", ".", "d">>,
     <<"a", ".", "b", "!", ".", "c">>,
     <<"a", ".", "b", " ", ".", "c">>,
     <<"a", ".", "b", ".">> \o Repeated("c", TokenMaxLength - 4),
     <<"a", ".", "b", ".">> \o Repeated("c", TokenMaxLength - 3),
     BearerPrefix \o <<"a", ".", "b", ".">> \o Repeated("c", TokenMaxLength - 10)}

\* How a page request can end: a body with items, a body without an items
\* array, status 401, another status that is not OK, the 30 s abort, or the
\* request failing on the network.
PageOutcomes == {"items", "noItems", "401", "notOk", "aborted", "rejected"}

\* response.statusText of an answer with the outcome (empty over HTTP/2).
StatusTexts(kind) ==
    IF kind = "401" THEN {"Unauthorized", ""}
    ELSE IF kind = "notOk" THEN {"Internal Server Error", "Forbidden", ""}
    ELSE IF kind \in {"items", "noItems"} THEN {"OK"}
    ELSE {""}

NoPage == [kind |-> "none", n |-> 0, statusText |-> ""]

\* The message of the error a failed page request makes fetchOrders throw.
thrownMessage(kind, statusText) ==
    IF kind = "401" THEN "Invalid or expired bearer token"
    ELSE IF kind = "notOk" THEN "Failed to fetch orders: " \o statusText
    ELSE IF kind = "aborted" THEN "Request timed out. Please try again."
    ELSE "fetch failed"

\* processToken up to its await of fetchOrders' first page request.
Submit(t) ==
    /\ pc = "start"
    /\ rawToken' = t
    /\ LET issues == TokenIssues(t)
       IN  IF issues # <<>>
           THEN /\ actionState' = [success |-> FALSE, error |-> issues[1],
                                   data |-> NoData]
                /\ pc' = "done"
                /\ UNCHANGED <<bearer, requested>>
           ELSE /\ bearer' = cleanToken(t)
                /\ requested' = <<0>>
                /\ pc' = "fetching"
                /\ UNCHANGED actionState
    /\ UNCHANGED <<history, offset, allOrders, lastPage, fetched, analyzeCalls>>
    /\ UNCHANGED besidesAction

\* A page request ends: fetchOrders runs to its next page request, or to its
\* end, and then processToken to its return.
PageResponse(kind, statusText) ==
    /\ pc = "fetching"
    /\ IF kind \in {"items", "noItems"}
       THEN LET items == IF kind = "items"
                         THEN pageItems(history, offset, PAGE_SIZE) ELSE <<>>
                gathered == allOrders \o items
                more == /\ Len(items) = PAGE_SIZE
                        /\ Len(requested) < MAX_PAGES
            IN  /\ lastPage' = [kind |-> kind, n |-> Len(items),
                              statusText |-> statusText]
                /\ allOrders' = gathered
                /\ offset' = IF Len(items) = PAGE_SIZE
                             THEN nextOffset(offset, items) ELSE offset
                /\ IF more
                   THEN /\ requested' = Append(requested, offset')
                        /\ UNCHANGED <<pc, fetched, analyzeCalls, actionState>>
                   ELSE LET normalized == normalizeOrders(gathered, now)
                            rest == afterFetch(normalized, tz)
                        IN  /\ fetched' = [kind |-> "return", value |-> normalized]
                            /\ analyzeCalls' = analyzeCalls + rest.analyzed
                            /\ actionState' = rest.state
                            /\ pc' = "done"
                            /\ UNCHANGED requested
       ELSE /\ lastPage' = [kind |-> kind, n |-> 0, statusText |-> statusText]
            /\ fetched' = [kind |-> "throw",
                           message |-> thrownMessage(kind, statusText)]
            /\ actionState' = caught(thrownMessage(kind, statusText))
            /\ pc' = "done"
            /\ UNCHANGED <<offset, allOrders, requested, analyzeCalls>>
    /\ UNCHANGED <<rawToken, bearer, history>>
    /\ UNCHANGED besidesAction

\* A form not yet submitted, for an account with the given history.
ActionStart ==
    /\ pc = "start"
    /\ rawToken = <<>>
    /\ bearer = <<>>
    /\ offset = 0
    /\ allOrders = <<>>
    /\ requested = <<>>
    /\ lastPage = NoPage
    /\ fetched = NoResult
    /\ analyzeCalls = 0
    /\ actionState = NoData

\* No form in use.
ActionIdle == ActionStart /\ history = <<>>

\* No getOrSet call made.
GetOrSetIdle ==
    /\ getOrSetCalls = [c \in Callers |-> NoCall]
    /\ fetcherRuns = 0

\* The state outside the analytics, the limiter and the cache left alone.
RestIdle == GetOrSetIdle /\ ButtonIdle /\ ActionIdle

\* The cache left alone.
CacheIdle ==
    /\ localStorage = [k \in StorageKeys |-> Missing]
    /\ cacheNow = CacheStart
    /\ made = {}
    /\ written = [k \in StorageKeys |-> NoSet]
    /\ lastOp = NoOp
    /\ cacheOps = 0

(***************************************************************************)
(* The state machine: a caller holding an order list (handed over          *)
(* directly, or normalized from raw API orders) calls analyze on it, up    *)
(* to MaxCalls times, while the wall clock advances.                       *)
(***************************************************************************)
Init ==
    /\ \/ /\ raw = <<>>
          /\ orders \in StatusLists \cup ValueLists \cup RestaurantLists
                        \cup PaymentLists \cup MixedLists \cup ScenarioLists
          /\ tz = 6
       \/ /\ raw = <<>>
          /\ orders \in DateLists
          /\ tz \in TzSet
       \/ /\ raw \in RawLists
          /\ orders = <<>>
          /\ tz = 6
    /\ input = orders
    /\ now = RunStart
    /\ calls = 0
    /\ result = NoResult
    /\ prev = NoResult
    /\ LimiterInit
    /\ CacheIdle
    /\ RestIdle

\* fetchOrders hands the accumulated raw orders to normalizeOrders.
Normalized == Len(orders) = Len(raw)

Normalize ==
    /\ raw # <<>>
    /\ ~Normalized
    /\ orders' = normalizeOrders(raw, now)
    /\ input' = orders'
    /\ UNCHANGED <<tz, now, calls, result, prev, raw>>
    /\ UNCHANGED besidesAnalytics

Analyze ==
    /\ raw = <<>> \/ Normalized
    /\ calls < MaxCalls
    /\ LET r == analyze(orders, tz)
       IN  /\ result' = r.ret
           /\ orders' = r.orders
    /\ prev' = result
    /\ calls' = calls + 1
    /\ UNCHANGED <<input, tz, now, raw>>
    /\ UNCHANGED besidesAnalytics

Tick ==
    /\ now < RunStart + MaxNow
    /\ now' = now + 1
    /\ UNCHANGED <<orders, input, tz, calls, result, prev, raw>>
    /\ UNCHANGED besidesAnalytics

Next == Normalize \/ Analyze \/ Tick

Spec == Init /\ [][Next]_vars

(***************************************************************************)
(* The same caller with the order lists that vary what the time, item,     *)
(* trend and insight computations read.                                    *)
(***************************************************************************)
InitFacets ==
    /\ raw = <<>>
    /\ \/ /\ orders \in ItemLists \cup GapLists \cup TrendLists \cup VoucherLists
          /\ tz = 6
       \/ /\ orders \in HourLists
          /\ tz \in TzSet
    /\ input = orders
    /\ now = RunStart
    /\ calls = 0
    /\ result = NoResult
    /\ prev = NoResult
    /\ LimiterInit
    /\ CacheIdle
    /\ RestIdle

NextFacets == Analyze \/ Tick

SpecFacets == InitFacets /\ [][NextFacets]_vars

(***************************************************************************)
(* The same caller with orders placed around the turn of a month, on       *)
(* hosts at either offset.                                                 *)
(***************************************************************************)
\* Wed 31 Jan 12:00Z, Wed 31 Jan 20:00Z (Thu 1 Feb 02:00 at offset +6) and
\* Thu 1 Feb 02:00Z, each with its own order value.
MonthEdgeSet ==
    {[date |-> 30 * 24 + 12, total_value |-> 30000],
     [date |-> 30 * 24 + 20, total_value |-> 20000],
     [date |-> 31 * 24 + 2, total_value |-> 50000]}

MonthEdgeLists ==
    {[i \in DOMAIN s |->
        [DefaultOrder(i) EXCEPT !.date = s[i].date,
                                !.total_value = s[i].total_value]] :
        s \in SeqsUpTo(MonthEdgeSet, MaxOrders)}

InitMonths ==
    /\ raw = <<>>
    /\ orders \in MonthEdgeLists
    /\ tz \in TzSet
    /\ input = orders
    /\ now = RunStart
    /\ calls = 0
    /\ result = NoResult
    /\ prev = NoResult
    /\ LimiterInit
    /\ CacheIdle
    /\ RestIdle

NextMonths == Analyze \/ Tick

SpecMonths == InitMonths /\ [][NextMonths]_vars

(***************************************************************************)
(* The middleware handling requests to /analyze while its clock advances.  *)
(***************************************************************************)
InitRateLimit ==
    /\ orders = <<>>
    /\ input = <<>>
    /\ raw = <<>>
    /\ tz = 6
    /\ now = RunStart
    /\ calls = 0
    /\ result = NoResult
    /\ prev = NoResult
    /\ LimiterInit
    /\ CacheIdle
    /\ RestIdle

Request ==
    /\ requests < MaxRequests
    /\ \E req \in RequestSet :
          LET r == middleware(req, rateLimitMap, nowMs)
          IN  /\ rateLimitMap' = r.map
              /\ response' = r.response
              /\ passed' =
                    IF r.response.limited /\ r.response.status # 429
                    THEN [passed EXCEPT ![r.response.ip] = Append(@, nowMs)]
                    ELSE passed
    /\ requests' = requests + 1
    /\ UNCHANGED nowMs
    /\ UNCHANGED besidesLimiter

AdvanceClock ==
    /\ \E dt \in ClockSteps :
          /\ nowMs + dt <= MaxClock
          /\ nowMs' = nowMs + dt
    /\ UNCHANGED <<rateLimitMap, passed, response, requests>>
    /\ UNCHANGED besidesLimiter

NextRateLimit == Request \/ AdvanceClock

SpecRateLimit == InitRateLimit /\ [][NextRateLimit]_vars

(***************************************************************************)
(* The cache in use while nothing else runs.                               *)
(***************************************************************************)
AnalyticsIdle ==
    /\ orders = <<>>
    /\ input = <<>>
    /\ raw = <<>>
    /\ tz = 6
    /\ now = RunStart
    /\ calls = 0
    /\ result = NoResult
    /\ prev = NoResult

InitCache == AnalyticsIdle /\ LimiterInit /\ CacheInit /\ RestIdle

NextCache ==
    \/ \E ns \in NamespaceSet : \E key \in KeysOf(ns) :
          \E w \in WriteSet : Set(ns, key, w.value, w.customTtlMs)
    \/ \E ns \in NamespaceSet : \E key \in KeysOf(ns) : Get(ns, key)
    \/ \E ns \in NamespaceSet : \E key \in KeysOf(ns) : Has(ns, key)
    \/ \E ns \in NamespaceSet : \E key \in KeysOf(ns) : GetTTL(ns, key)
    \/ \E ns \in NamespaceSet : \E key \in KeysOf(ns) : Remove(ns, key)
    \/ \E ns \in NamespaceSet : Prune(ns)
    \/ \E ns \in NamespaceSet : Clear(ns)
    \/ ClearAllCaches
    \/ SaveToStorage
    \/ ClearStorage
    \/ AdvanceCacheClock

SpecCache == InitCache /\ [][NextCache]_vars

(***************************************************************************)
(* Callers of ordersCache.getOrSet, whose calls may overlap, while the     *)
(* clock advances.                                                         *)
(***************************************************************************)
InitGetOrSet ==
    /\ AnalyticsIdle /\ LimiterInit /\ CacheInit
    /\ GetOrSetIdle /\ ButtonIdle /\ ActionIdle

NextGetOrSet ==
    \/ \E c \in Callers : \E key \in KeysOf("foodpanda_orders") :
            GetOrSetCall(c, "foodpanda_orders", key)
    \/ \E c \in Callers : \E fresh \in FetchedSet \cup {Thrown} :
            GetOrSetSettle(c, "foodpanda_orders", fresh)
    \/ AdvanceCacheClock

SpecGetOrSet == InitGetOrSet /\ [][NextGetOrSet]_vars

(***************************************************************************)
(* A user clicking ClearCacheButton and its Cancel button, over what an    *)
(* earlier session left in localStorage.                                   *)
(***************************************************************************)
InitButton ==
    /\ AnalyticsIdle /\ LimiterInit /\ CacheInit /\ GetOrSetIdle /\ ActionIdle
    /\ ButtonMounted
    /\ reloadOnClear \in BOOLEAN

NextButton ==
    \/ \E outcome \in TryOutcomes : handleClick(outcome)
    \/ handleCancel
    \/ ExitComplete
    \/ \E kind \in TimerKinds : TimerFires(kind)

SpecButton == InitButton /\ [][NextButton]_vars

(***************************************************************************)
(* One submission of the token form: processToken validates the token,     *)
(* fetchOrders pages through the account's history, analyze runs on what   *)
(* was fetched.                                                            *)
(***************************************************************************)
InitAction ==
    /\ AnalyticsIdle /\ LimiterInit /\ CacheIdle /\ GetOrSetIdle /\ ButtonIdle
    /\ ActionStart
    /\ \E n \in HistorySizes : history = [i \in 1..n |-> rawOrder(i)]

NextAction ==
    \/ \E t \in TokenSet : Submit(t)
    \/ \E kind \in PageOutcomes : \E statusText \in StatusTexts(kind) :
            PageResponse(kind, statusText)

SpecAction == InitAction /\ [][NextAction]_vars

(***************************************************************************)
(* Vocabulary of the properties.                                           *)
(***************************************************************************)
Called == calls >= 1

Returned == Called /\ result.kind = "return"

\* The status, lowercased, mentions the token somewhere.
Mentions(status, token) ==
    \E i \in 0..(Len(status) - Len(token)) :
        \A k \in 1..Len(token) :
            LET c == status[i + k]
            IN  (IF c \in DOMAIN LowerOf THEN LowerOf[c] ELSE c) = token[k]

Usable(o) == ~Mentions(o.status, TokenCancel) /\ ~Mentions(o.status, TokenFail)

UsableIdx == {i \in DOMAIN orders : Usable(orders[i])}

\* The retained orders, in input order.
Retained == SelectIdx(orders, UsableIdx)

WeekdayNames ==
    <<"Monday", "Tuesday", "Wednesday", "Thursday", "Friday", "Saturday", "Sunday">>

\* The weekday of the date in the host's time zone (2024-01-01 is a Monday).
Weekday(d, z) == WeekdayNames[(((d + z) \div 24) % 7) + 1]

IsCanonicalEmpty(v) ==
    /\ v.spending.spending_category.type = "N/A"
    /\ v.spending.total_spent = 0 /\ v.spending.average_order_value = 0
    /\ v.spending.median_order_value = 0 /\ v.spending.total_delivery_fees = 0
    /\ v.spending.total_service_fees = 0 /\ v.spending.total_voucher_savings = 0
    /\ v.spending.voucher_usage_rate = 0 /\ v.spending.monthly_spending = <<>>
    /\ v.restaurants.top_restaurants_by_orders = <<>>
    /\ v.restaurants.unique_restaurants = 0
    /\ v.restaurants.loyalty_analysis.top_restaurant_percentage = 0
    /\ v.food.top_food_items = <<>> /\ v.food.food_categories = <<>>
    /\ v.food.average_items_per_order = 0 /\ v.food.total_unique_items = 0
    /\ v.patterns.peak_hour = 0 /\ v.patterns.hourly_patterns = <<>>
    /\ v.patterns.weekend_vs_weekday =
          [weekend_orders |-> 0, weekday_orders |-> 0, weekend_percentage |-> 0]
    /\ v.payments.payment_method_counts = <<>>
    /\ v.prices.average_price_per_item = 0
    /\ v.prices.price_range = [min |-> 0, max |-> 0]
    /\ v.prices.restaurant_value_scores = <<>>
    /\ v.prices.discount_effectiveness = 0
    /\ v.prices.price_trend_over_time = <<>>
    /\ v.behavior.order_size_distribution = [small |-> 0, medium |-> 0, large |-> 0]
    /\ v.behavior.average_basket_size = 0
    /\ v.behavior.addon_frequency =
          [drinks_percentage |-> 0, desserts_percentage |-> 0]
    /\ v.behavior.reorder_patterns =
          [exact_reorder_count |-> 0, similar_items_frequency |-> <<>>]
    /\ v.diversity =
          [cuisine_switching_rate |-> 0, new_restaurants_per_month |-> <<>>,
           restaurant_discovery_rate |-> 0, cuisine_preference_evolution |-> <<>>,
           variety_score |-> 0]
    /\ v.timeAnalysis =
          [order_frequency_trend |-> <<>>, average_days_between_orders |-> 0,
           spending_by_day_of_week |-> <<>>, seasonal_patterns |-> <<>>,
           time_gap_distribution |->
              [same_day |-> 0, within_week |-> 0, within_month |-> 0,
               over_month |-> 0],
           ordering_acceleration |-> 0]
    /\ v.costOptimization.fee_to_food_ratio = 0
    /\ v.costOptimization.average_fee_percentage = 0
    /\ v.costOptimization.optimal_order_value = 0
    /\ v.costOptimization.voucher_impact =
          [avg_savings_with_voucher |-> 0, avg_order_value_with_voucher |-> 0,
           avg_order_value_without_voucher |-> 0]
    /\ v.costOptimization.delivery_fee_variance = [min |-> 0, max |-> 0, avg |-> 0]
    /\ v.costOptimization.potential_savings = 0
    /\ v.healthDietary.healthy_vs_indulgent_ratio = 0
    /\ v.healthDietary.meal_type_distribution =
          [breakfast |-> 0, lunch |-> 0, dinner |-> 0, snack |-> 0]
    /\ v.healthDietary.drink_to_food_ratio = 0
    /\ v.healthDietary.healthy_food_percentage = 0
    /\ v.healthDietary.indulgent_food_percentage = 0
    /\ v.healthDietary.category_health_scores = <<>>
    /\ v.predictive.forecasted_monthly_spending = 0
    /\ v.predictive.trend_percentage = 0
    /\ v.predictive.predicted_next_order_days = 0
    /\ v.predictive.estimated_annual_spending = 0
    /\ v.advanced.customer_lifetime_value = 0
    /\ v.advanced.order_efficiency_score = 0
    /\ v.advanced.brand_loyalty_score = 0 /\ v.advanced.spontaneity_index = 0
    /\ v.advanced.deal_dependency_ratio = 0 /\ v.advanced.churn_risk_score = 0
    /\ v.advanced.exploration_vs_exploitation =
          [exploration_percentage |-> 0, exploitation_percentage |-> 0]
    /\ v.comparative.spending_percentile = 50
    /\ v.comparative.value_consciousness_score = 0
    /\ v.insights = <<>>

(***************************************************************************)
(* C1.  analyze never raises on input with no usable orders: for the empty *)
(* list and for any list in which every order's lowercased status contains *)
(* "cancel" or "fail" it returns the canonical empty record (every numeric *)
(* field 0 except spending_percentile = 50, every mapping empty,           *)
(* spending_category.type = 'N/A', insights = []); and an order whose      *)
(* status contains neither token is never dropped by the filter: as soon   *)
(* as there is one the outcome is not the empty record, and a returned     *)
(* analysis counts exactly those orders.                                   *)
(***************************************************************************)
C1_EmptyInputGivesCanonicalEmpty ==
    Called =>
        /\ UsableIdx = {} =>
              /\ result.kind = "return"
              /\ IsCanonicalEmpty(result.value)
        /\ UsableIdx # {} =>
              /\ result.kind = "return" => ~IsCanonicalEmpty(result.value)
              /\ result.kind = "return" =>
                    LET w == result.value.patterns.weekend_vs_weekday
                    IN  w.weekend_orders + w.weekday_orders = Cardinality(UsableIdx)

C1_Witness ==
    /\ Called
    /\ Len(orders) >= 2
    /\ UsableIdx = {}
    /\ \E i \in DOMAIN orders : orders[i].status = StatusCANCELED
    /\ \E i \in DOMAIN orders : orders[i].status = StatusDeliveryFailed
    /\ result.kind = "return"
    /\ IsCanonicalEmpty(result.value)

(***************************************************************************)
(* C2.  Weekend classification in analyzePatterns: an order is counted in  *)
(* weekend_orders if and only if its weekday is Saturday or Sunday (so a   *)
(* Sunday order is weekend, a Tuesday or Friday order is weekday), and     *)
(* weekend_orders + weekday_orders is the number of retained orders.       *)
(***************************************************************************)
C2_WeekendIsSaturdaySunday ==
    (Returned /\ UsableIdx # {}) =>
        LET w == result.value.patterns.weekend_vs_weekday
        IN  /\ w.weekend_orders =
                  Cardinality({i \in UsableIdx :
                      Weekday(orders[i].date, tz) \in {"Saturday", "Sunday"}})
            /\ w.weekend_orders + w.weekday_orders = Cardinality(UsableIdx)

(***************************************************************************)
(* C3.  A retained order whose date string does not parse makes analyze    *)
(* fail with an explicit data-validation error (InvalidOrderDataError),    *)
(* wherever the order stands in the list and whatever the list's length;   *)
(* analyze never returns a FullAnalytics computed from an unparseable      *)
(* date, and a raw order without a parseable date is never given the       *)
(* current time as its date.                                               *)
(***************************************************************************)
C3_UnparseableDateIsValidationError ==
    /\ Called =>
          \A i \in UsableIdx :
              isInvalidDate(orders[i].date) =>
                  /\ result.kind = "throw"
                  /\ result.name = "InvalidOrderDataError"
    /\ (raw # <<>> /\ Normalized) =>
          \A i \in DOMAIN raw :
              (\A f \in {raw[i].ordered_at, raw[i].createdAt, raw[i].delivery_date} :
                    f \in {AbsentField, InvalidDateString})
                  => orders[i].date < RunStart

RetainedCount == Cardinality(UsableIdx)

RetainedValues ==
    LET kept == Retained
    IN  [p \in DOMAIN kept |-> kept[p].total_value]

RetainedTotal == SumSeq(RetainedValues)

RestaurantNames == {orders[i].restaurant_name : i \in UsableIdx}

RestaurantCount(name) ==
    Cardinality({i \in UsableIdx : orders[i].restaurant_name = name})

MaxRestaurantCount ==
    CHOOSE c \in {RestaurantCount(x) : x \in RestaurantNames} :
        \A x \in RestaurantNames : RestaurantCount(x) <= c

PaymentMethods == {orders[i].payment_method : i \in UsableIdx}

PaymentCount(method) ==
    Cardinality({i \in UsableIdx : orders[i].payment_method = method})

\* The k-th smallest of the values (k = 1 for the smallest).
KthSmallest(vals, k) ==
    CHOOSE x \in Range(vals) :
        /\ Cardinality({i \in DOMAIN vals : vals[i] < x}) < k
        /\ k <= Cardinality({i \in DOMAIN vals : vals[i] <= x})

Analyzed == Returned /\ UsableIdx # {}

(***************************************************************************)
(* C5.  No order is lost in restaurant counting: for every non-empty set   *)
(* of retained orders the counts of top_restaurants_by_orders sum to at    *)
(* most the number of retained orders, and to exactly that number when     *)
(* there are at most 10 distinct restaurant names; unique_restaurants is   *)
(* the number of distinct names, and top_restaurants_by_orders has         *)
(* min(10, unique_restaurants) entries in non-increasing count order.      *)
(***************************************************************************)
C5_NoOrderLostInRestaurantCounting ==
    Analyzed =>
        LET r == result.value.restaurants
            top == r.top_restaurants_by_orders
            total == SumSeq(Values(top))
            u == Cardinality(RestaurantNames)
        IN  /\ total <= RetainedCount
            /\ u <= 10 => total = RetainedCount
            /\ r.unique_restaurants = u
            /\ Len(top) = Min(10, u)
            /\ \A p, q \in DOMAIN top : p < q => top[p].v >= top[q].v

(***************************************************************************)
(* C6.  spending_category is decided from average_order_value (total of    *)
(* the retained orders over their number) by strict thresholds taken in    *)
(* order: above 400 "Big Spender", above 250 and at most 400 "Medium       *)
(* Spender", anything else "Light Spender"; a non-empty input gets one of  *)
(* these three types and never 'N/A'.                                      *)
(***************************************************************************)
C6_SpendingCategoryThresholds ==
    Analyzed =>
        LET sp == result.value.spending
            avg == sp.average_order_value
            n == RetainedCount
            total == RetainedTotal
        IN  /\ avg.num * n = total * avg.den
            /\ sp.spending_category.type =
                  IF total > 40000 * n THEN "Big Spender"
                  ELSE IF total > 25000 * n THEN "Medium Spender"
                  ELSE "Light Spender"
            /\ sp.spending_category.type # "N/A"

C6_Witness ==
    /\ Analyzed
    /\ RetainedCount >= 2
    /\ RetainedTotal = 40000 * RetainedCount
    /\ result.value.spending.spending_category.type = "Medium Spender"

(***************************************************************************)
(* C7 as claimed.  Spending category boundary: retained orders whose       *)
(* average value is exactly 250 are classified "Medium Spender", and an    *)
(* average of 400.01 is classified "Big Spender".                          *)
(***************************************************************************)
C7_BoundaryAsClaimed ==
    Analyzed =>
        LET type == result.value.spending.spending_category.type
            n == RetainedCount
            total == RetainedTotal
        IN  /\ total = 25000 * n => type = "Medium Spender"
            /\ total = 40001 * n => type = "Big Spender"

(***************************************************************************)
(* C7 as amended.  Spending category boundary: retained orders whose       *)
(* average value is exactly 250 are classified "Light Spender" (the        *)
(* threshold is strict), and an average of 400.01 is classified "Big       *)
(* Spender".                                                               *)
(***************************************************************************)
C7_BoundaryStrict ==
    Analyzed =>
        LET type == result.value.spending.spending_category.type
            n == RetainedCount
            total == RetainedTotal
        IN  /\ total = 25000 * n => type = "Light Spender"
            /\ total = 40001 * n => type = "Big Spender"

C7_Witness ==
    /\ Analyzed
    /\ RetainedTotal = 25000 * RetainedCount
    /\ \E i, j \in UsableIdx : orders[i].total_value # orders[j].total_value
    /\ result.value.spending.spending_category.type = "Light Spender"

(***************************************************************************)
(* C8.  median_order_value is the middle element of the ascending          *)
(* total_value list when the number of retained orders is odd and the mean *)
(* of the two middle elements when it is even, whatever the input order    *)
(* of the orders ([100,200,300] gives 200, [100,200,300,400] gives 250),   *)
(* and calculateMedian does not reorder the list it is given.              *)
(***************************************************************************)
C8_MedianIsSortedMiddle ==
    Analyzed =>
        LET vals == RetainedValues
            n == Len(vals)
            med == result.value.spending.median_order_value
        IN  /\ n % 2 = 1 => med.num = KthSmallest(vals, (n + 1) \div 2) * med.den
            /\ n % 2 = 0 =>
                  2 * med.num =
                      (KthSmallest(vals, n \div 2) + KthSmallest(vals, (n \div 2) + 1))
                          * med.den
            /\ (n = 3 /\ Range(vals) = {10000, 20000, 30000}) => RatEq(med, 20000)
            /\ (n = 4 /\ Range(vals) = {10000, 20000, 30000, 40000})
                  => RatEq(med, 25000)
            /\ calculateMedian(vals).values = vals

C8_Witness ==
    /\ Analyzed
    /\ RetainedValues = <<40000, 10000, 30000, 20000>>
    /\ RatEq(result.value.spending.median_order_value, 25000)

(***************************************************************************)
(* C9.  Loyalty tier: top_restaurant_percentage is the largest             *)
(* per-restaurant order count divided by the number of retained orders     *)
(* times 100, and the level is "Super Loyal" above 30, "Loyal" above 15    *)
(* and at most 30, else "Explorer"; the three-order scenario (restaurants  *)
(* A, A, B with total_value 300, 200, 500 and one voucher) gives           *)
(* total_spent = 1000, unique_restaurants = 2, top_restaurants_by_orders = *)
(* {A: 2, B: 1} and level "Super Loyal".                                   *)
(***************************************************************************)
C9_LoyaltyTier ==
    Analyzed =>
        LET la == result.value.restaurants.loyalty_analysis
            pct == la.top_restaurant_percentage
            n == RetainedCount
            most == MaxRestaurantCount
        IN  /\ pct.num * n = 100 * most * pct.den
            /\ la.level =
                  IF 100 * most > 30 * n THEN "Super Loyal"
                  ELSE IF 100 * most > 15 * n THEN "Loyal"
                  ELSE "Explorer"
            /\ orders = ScenarioOrders =>
                  /\ result.value.spending.total_spent = 100000
                  /\ result.value.restaurants.unique_restaurants = 2
                  /\ result.value.restaurants.top_restaurants_by_orders =
                        <<[k |-> "A", v |-> 2], [k |-> "B", v |-> 1]>>
                  /\ la.level = "Super Loyal"

(***************************************************************************)
(* C10 as claimed.  preferred_payment_method is a payment method with the  *)
(* maximal order count, and when two or more methods tie for the maximum   *)
(* it is the one that comes first in the iteration order of                *)
(* payment_method_counts.                                                  *)
(***************************************************************************)
C10_PreferredFirstOnTie ==
    Analyzed =>
        LET pay == result.value.payments
            counts == pay.payment_method_counts
        IN  \E p \in DOMAIN counts :
                /\ counts[p].k = pay.preferred_payment_method
                /\ counts[p].v = PaymentCount(counts[p].k)
                /\ \A m \in PaymentMethods : PaymentCount(m) <= counts[p].v
                /\ \A q \in DOMAIN counts : q < p => counts[q].v < counts[p].v

(***************************************************************************)
(* C10 as amended.  preferred_payment_method is a payment method with the  *)
(* maximal order count, and when two or more methods tie for the maximum   *)
(* it is the one that comes last in the iteration order of                 *)
(* payment_method_counts.                                                  *)
(***************************************************************************)
C10_PreferredLastOnTie ==
    Analyzed =>
        LET pay == result.value.payments
            counts == pay.payment_method_counts
        IN  \E p \in DOMAIN counts :
                /\ counts[p].k = pay.preferred_payment_method
                /\ counts[p].v = PaymentCount(counts[p].k)
                /\ \A m \in PaymentMethods : PaymentCount(m) <= counts[p].v
                /\ \A q \in DOMAIN counts : q > p => counts[q].v < counts[p].v

C10_Witness ==
    /\ Analyzed
    /\ LET pay == result.value.payments
           counts == pay.payment_method_counts
       IN  \E p, q \in DOMAIN counts :
               /\ p < q
               /\ counts[p].v = counts[q].v
               /\ \A m \in PaymentMethods : PaymentCount(m) <= counts[q].v
               /\ \A t \in DOMAIN counts : t > q => counts[t].v < counts[q].v
               /\ pay.preferred_payment_method = counts[q].k

(***************************************************************************)
(* More vocabulary: hours, item names and the time span of the retained    *)
(* orders.                                                                 *)
(***************************************************************************)
\* The hour of day of the i-th order in the host's time zone.
HourOf(i) == (orders[i].date + tz) % 24

HourCount(h) == Cardinality({i \in UsableIdx : HourOf(i) = h})

\* The number of retained orders placed in each hour of the day.
HourCounts ==
    LET kept == UsableIdx
    IN  [h \in 0..23 |-> Cardinality({i \in kept : HourOf(i) = h})]

\* The lowercase-trimmed names of the items of an order, as listed.
ItemNames(o) == [i \in DOMAIN o.items |-> trim(toLowerCase(o.items[i].name))]

\* The names in ascending order, duplicates kept, joined by "|".
NamesJoined(o) ==
    LET names == ItemNames(o)
        f == CHOOSE g \in Perms(Len(names)) :
                \A a, b \in DOMAIN names :
                    a < b => ~StringLess(names[g[b]], names[g[a]])
    IN  join([i \in DOMAIN names |-> names[f[i]]], <<"|">>)

\* The signature of each retained order, by its index.
Signatures ==
    LET kept == UsableIdx
    IN  [i \in kept |-> NamesJoined(orders[i])]

RetainedDates == {orders[i].date : i \in UsableIdx}

\* Hours from the earliest to the latest retained order.
SpanHours ==
    LET dates == RetainedDates
    IN  (CHOOSE d \in dates : \A e \in dates : e <= d)
            - (CHOOSE d \in dates : \A e \in dates : d <= e)

(***************************************************************************)
(* C11 as claimed.  peak_hour is an hour of the day whose order count is   *)
(* maximal in hourly_patterns, and when several hours tie for the maximum  *)
(* it is the lowest tied hour; this also holds when hour 0 has no orders   *)
(* and when hour 0 is among the tied hours.                                *)
(***************************************************************************)
C11_PeakHourLowestOnTie ==
    Analyzed =>
        LET pat == result.value.patterns
            ph == pat.peak_hour
            hc == HourCounts
        IN  /\ \A p \in DOMAIN pat.hourly_patterns :
                  pat.hourly_patterns[p].v = hc[parseInt(pat.hourly_patterns[p].k)]
            /\ hc[ph] > 0
            /\ \A h \in 0..23 : hc[h] <= hc[ph]
            /\ \A h \in 0..23 : hc[h] = hc[ph] => ph <= h

(***************************************************************************)
(* C11 as amended.  peak_hour is an hour of the day whose order count is   *)
(* maximal in hourly_patterns, and when several hours tie for the maximum  *)
(* it is the one found last when folding left to right over the hour keys  *)
(* (which are in ascending numeric order), i.e. the highest tied hour;     *)
(* this also holds when hour 0 has no orders and when hour 0 is among the  *)
(* tied hours.                                                             *)
(***************************************************************************)
C11_PeakHourHighestOnTie ==
    Analyzed =>
        LET pat == result.value.patterns
            ph == pat.peak_hour
            hc == HourCounts
        IN  /\ \A p \in DOMAIN pat.hourly_patterns :
                  pat.hourly_patterns[p].v = hc[parseInt(pat.hourly_patterns[p].k)]
            /\ \A p, q \in DOMAIN pat.hourly_patterns :
                  p < q => parseInt(pat.hourly_patterns[p].k)
                              < parseInt(pat.hourly_patterns[q].k)
            /\ hc[ph] > 0
            /\ \A h \in 0..23 : hc[h] <= hc[ph]
            /\ \A h \in 0..23 : hc[h] = hc[ph] => h <= ph

C11_Witness ==
    /\ Analyzed
    /\ HourCount(0) = 1
    /\ HourCount(18) = 1
    /\ HourCount(9) = 0
    /\ result.value.patterns.peak_hour = 18

C13_LifetimeValueOverSpan ==
    Analyzed =>
        LET total == RetainedTotal
            span == SpanHours
        IN  result.value.advanced.customer_lifetime_value =
                RatMul(Frac(total * 24, IF span > 24 THEN span ELSE 24), Rat(365, 1))

(***************************************************************************)
(* C13 as amended.  customer_lifetime_value equals (total_spent / max(1,   *)
(* days between the first and the last retained order)) * 365 when there   *)
(* are two or more retained orders, including several orders that all fall *)
(* within less than one day (total_spent * 365); with a single retained    *)
(* order the span is taken to be 30 days, so the value is                  *)
(* (total_spent / 30) * 365.                                               *)
(***************************************************************************)
C13_LifetimeValueThirtyDaysForOne ==
    Analyzed =>
        LET total == RetainedTotal
            span == SpanHours
            n == RetainedCount
            clv == result.value.advanced.customer_lifetime_value
        IN  /\ n >= 2 =>
                  clv = RatMul(Frac(total * 24, IF span > 24 THEN span ELSE 24),
                               Rat(365, 1))
            /\ (n >= 2 /\ span < 24) => clv = Rat(total * 365, 1)
            /\ n = 1 => clv = Frac(total * 365, 30)

C13_Witness ==
    /\ Analyzed
    /\ RetainedCount = 1
    /\ result.value.advanced.customer_lifetime_value = Frac(30000 * 365, 30)

(***************************************************************************)
(* More vocabulary: months, vouchers and the chronological dates.          *)
(***************************************************************************)
\* The calendar months (0 = January) holding a retained order, host time.
RetainedMonths == {getMonth(orders[i].date, tz) : i \in UsableIdx}

MonthTotal(m) ==
    SumSeq(SelectIdx([i \in DOMAIN orders |-> orders[i].total_value],
                     {i \in UsableIdx : getMonth(orders[i].date, tz) = m}))

VoucherCount == Cardinality({i \in UsableIdx : orders[i].voucher_discount > 0})

RetainedDateList ==
    LET kept == Retained
    IN  [p \in DOMAIN kept |-> kept[p].date]

\* The gaps, in hours, between consecutive retained orders in date order.
Gaps ==
    LET dates == RetainedDateList
    IN  [k \in 1..(Len(dates) - 1) |->
            KthSmallest(dates, k + 1) - KthSmallest(dates, k)]

(***************************************************************************)
(* C14.  trend_percentage reported by analyzePredictive always lies in     *)
(* [-15, 15] whatever the monthly totals are (a raw slope-derived          *)
(* percentage of +40 is reported as 15), and spending_trend is             *)
(* "increasing" exactly when trend_percentage > 5, "decreasing" exactly    *)
(* when it is < -5, and "stable" otherwise, including when all retained    *)
(* orders fall in one month.                                               *)
(***************************************************************************)
C14_TrendClampedAndLabelled ==
    Analyzed =>
        LET pr == result.value.predictive
            tp == pr.trend_percentage
            months == RetainedMonths
        IN  /\ (-15) * tp.den <= tp.num /\ tp.num <= 15 * tp.den
            /\ pr.spending_trend =
                  IF tp.num > 5 * tp.den THEN "increasing"
                  ELSE IF tp.num < (-5) * tp.den THEN "decreasing"
                  ELSE "stable"
            /\ Cardinality(months) = 1 =>
                  tp.num = 0 /\ pr.spending_trend = "stable"
            /\ \A m1, m2 \in months :
                  (months = {m1, m2} /\ m1 < m2) =>
                      LET y1 == MonthTotal(m1)
                          y2 == MonthTotal(m2)
                      IN  \* the raw percentage is 200 (y2 - y1) / (y1 + y2)
                          /\ 200 * (y2 - y1) >= 15 * (y1 + y2) => tp = Rat(15, 1)
                          /\ 200 * (y2 - y1) <= (-15) * (y1 + y2) => tp = Rat(-15, 1)
                          /\ (/\ 200 * (y2 - y1) < 15 * (y1 + y2)
                              /\ 200 * (y2 - y1) > (-15) * (y1 + y2))
                                => tp.num * (y1 + y2) = 200 * (y2 - y1) * tp.den

C14_Witness ==
    /\ Analyzed
    /\ RetainedCount = 2
    /\ RetainedMonths = {0, 1}
    /\ MonthTotal(0) = 20000
    /\ MonthTotal(1) = 30000
    /\ result.value.predictive.trend_percentage = Rat(15, 1)
    /\ result.value.predictive.spending_trend = "increasing"

C16_InsightsOrderAndVoucher ==
    Analyzed =>
        LET ins == result.value.insights
            cats == [p \in DOMAIN ins |-> ins[p].category]
            n == RetainedCount
            v == VoucherCount
            rate == result.value.spending.voucher_usage_rate
        IN  /\ rate.num * n = 100 * v * rate.den
            /\ 100 * v > 20 * n =>
                  /\ cats = <<"spending", "voucher", "timing", "loyalty">>
                  /\ ins[2].title =
                        IF 100 * v > 50 * n THEN "Smart Saver" ELSE "Deal Hunter"
            /\ 100 * v <= 20 * n => cats = <<"spending", "timing", "loyalty">>
            /\ Len(ins) \in {3, 4}

C16_Witness ==
    /\ Analyzed
    /\ RetainedCount = 5
    /\ VoucherCount = 1
    /\ Len(result.value.insights) = 3

(***************************************************************************)
(* C17.  time_gap_distribution partitions the gaps between consecutive     *)
(* date-ascending retained orders: a gap under 1 day counts as same_day,   *)
(* from 1 to 7 days inclusive as within_week, above 7 up to 30 inclusive   *)
(* as within_month, above 30 as over_month; the four buckets sum to        *)
(* (number of retained orders - 1), whatever order the input list was in.  *)
(***************************************************************************)
C17_TimeGapBuckets ==
    Analyzed =>
        LET d == result.value.timeAnalysis.time_gap_distribution
            n == RetainedCount
            gaps == Gaps
            count(lo, hi) ==
                Cardinality({k \in DOMAIN gaps : lo <= gaps[k] /\ gaps[k] <= hi})
            last == 24 * 366
        IN  /\ d.same_day = count(0, 23)
            /\ d.within_week = count(24, 7 * 24)
            /\ d.within_month = count(7 * 24 + 1, 30 * 24)
            /\ d.over_month = count(30 * 24 + 1, last)
            /\ d.same_day + d.within_week + d.within_month + d.over_month = n - 1

C17_Witness ==
    /\ Analyzed
    /\ RetainedDateList = <<100 + 38 * 24, 100 + 24, 100 + 8 * 24>>
    /\ result.value.timeAnalysis.time_gap_distribution =
          [same_day |-> 0, within_week |-> 1, within_month |-> 1, over_month |-> 0]

(***************************************************************************)
(* C18.  ordering_acceleration is 0 when there is a single retained order  *)
(* and whenever the first half of the chronological orders spans zero days *)
(* (first-half frequency 0); churn_risk_score is the step function of      *)
(* ordering_acceleration with value 80 below -20, 50 from -20 up to but    *)
(* excluding 0, and 20 at 0 or above, so it is always one of 20, 50, 80    *)
(* for non-empty input.                                                    *)
(***************************************************************************)
C18_AccelerationAndChurn ==
    Analyzed =>
        LET acc == result.value.timeAnalysis.ordering_acceleration
            churn == result.value.advanced.churn_risk_score
            n == RetainedCount
            dates == RetainedDateList
        IN  /\ n = 1 => acc.num = 0
            /\ (n >= 2 /\ KthSmallest(dates, (n \div 2) + 1) = KthSmallest(dates, 1))
                  => acc.num = 0
            /\ churn = IF acc.num < (-20) * acc.den THEN 80
                       ELSE IF acc.num < 0 THEN 50
                       ELSE 20
            /\ churn \in {20, 50, 80}

C18_Witness ==
    /\ Analyzed
    /\ RetainedCount = 3
    /\ result.value.timeAnalysis.ordering_acceleration = Rat(-20, 1)
    /\ result.value.advanced.churn_risk_score = 50

(***************************************************************************)
(* C19.  exploitation_percentage is (largest per-restaurant order count /  *)
(* number of retained orders) * 100, exploration_percentage is 100 minus   *)
(* it, both lie in [0, 100] and sum to 100, and exploitation_percentage    *)
(* equals restaurants.loyalty_analysis.top_restaurant_percentage for every *)
(* non-empty input.                                                        *)
(***************************************************************************)
C19_ExploitationIsTopRestaurantShare ==
    Analyzed =>
        LET ee == result.value.advanced.exploration_vs_exploitation
            it == ee.exploitation_percentage
            ex == ee.exploration_percentage
            top == result.value.restaurants.loyalty_analysis.top_restaurant_percentage
            n == RetainedCount
        IN  /\ it.num * n = 100 * MaxRestaurantCount * it.den
            /\ RatAdd(it, ex) = Rat(100, 1)
            /\ 0 <= it.num /\ it.num <= 100 * it.den
            /\ 0 <= ex.num /\ ex.num <= 100 * ex.den
            /\ it.num * top.den = top.num * it.den

(***************************************************************************)
(* C20.  Rate limiting of POST /analyze: for every client IP and every     *)
(* sequence of request times, in any 60-second interval at most 10         *)
(* requests from that IP are let through; every further request in that    *)
(* interval is answered with status 429 and Retry-After 60, and requests   *)
(* from other IPs do not change that IP's count.                           *)
(***************************************************************************)
C20_AtMostTenPerSixtySeconds ==
    /\ \A ip \in ClientKeys :
          \A i, j \in DOMAIN passed[ip] :
              j >= i + 10 => passed[ip][j] - passed[ip][i] >= 60 * 1000
    /\ response.status = 429 => response.retryAfter = "60"
    /\ \A ip \in ClientKeys :
          rateLimitMap[ip] # NoRecord =>
              rateLimitMap[ip].count =
                  Cardinality({i \in DOMAIN passed[ip] :
                      passed[ip][i] >= rateLimitMap[ip].resetTime - 60 * 1000})

(***************************************************************************)
(* C29.  Every retained order is attributed to the same calendar month in  *)
(* all month-keyed facets: for every input and every time-zone offset of   *)
(* the host, the key set of spending.monthly_spending equals the key set   *)
(* of timeAnalysis.order_frequency_trend, the values of monthly_spending   *)
(* sum to total_spent, and the values of order_frequency_trend sum to the  *)
(* number of retained orders.                                              *)
(***************************************************************************)
C29_SameMonthInAllFacets ==
    Analyzed =>
        LET ms == result.value.spending.monthly_spending
            oft == result.value.timeAnalysis.order_frequency_trend
        IN  /\ {ms[p].k : p \in DOMAIN ms} = {oft[p].k : p \in DOMAIN oft}
            /\ SumSeq([p \in DOMAIN ms |-> ms[p].v])
                  = result.value.spending.total_spent
            /\ SumSeq([p \in DOMAIN oft |-> oft[p].v]) = RetainedCount

(***************************************************************************)
(* Vocabulary of the cache properties.                                     *)
(***************************************************************************)
\* The storage key the latest operation was about.
LastKey == getFullKey(lastOp.ns, lastOp.key)

\* The latest operation read a key whose latest successful set is still in
\* force (not removed, cleared or overwritten since).
ReadOfWritten ==
    /\ lastOp.op \in {"get", "has", "getTTL"}
    /\ written[LastKey] # NoSet

(***************************************************************************)
(* C21.  Cache expiration: after set(key, v, ttl) succeeds at time t on a  *)
(* CacheManager, get(key) returns v at every time up to t + ttl (unless    *)
(* the key is removed, cleared or overwritten in between), and at every    *)
(* time after t + ttl get(key) returns null, has(key) is false,            *)
(* getTTL(key) is null and the entry has been deleted from storage by that *)
(* get; a value is never returned after its expiry or when its stored      *)
(* version differs from the manager's version.                             *)
(***************************************************************************)
C21_CacheExpiration ==
    /\ ReadOfWritten =>
          LET w == written[LastKey]
          IN  IF lastOp.at <= w.at + w.ttl
              THEN lastOp.op = "get" => lastOp.ret = w.value
              ELSE /\ lastOp.op = "get" =>
                        lastOp.ret = Null /\ localStorage[LastKey] = Missing
                   /\ lastOp.op = "has" => lastOp.ret = FALSE
                   /\ lastOp.op = "getTTL" => lastOp.ret = Null
    /\ (/\ lastOp.op = "get"
        /\ lastOp.before.kind = "entry"
        /\ \/ lastOp.at > lastOp.before.expiry
           \/ lastOp.before.version # CURRENT_VERSION)
          => lastOp.ret = Null

\* The step is a set on a constructed-or-not manager; the operators below
\* describe it from the storage as the manager's constructor leaves it.
SetStep == lastOp'.op = "set" /\ cacheOps' = cacheOps + 1

StoreAtSet == instance(localStorage, lastOp'.ns, made, cacheNow)

ItemAtSet == entryOf(lastOp'.ns, lastOp'.value, lastOp'.ttl, cacheNow)

\* The write of the step's set fails for lack of space.
QuotaExceededAtSet ==
    /\ isAvailable(StoreAtSet).ret
    /\ ~fits(StoreAtSet, getFullKey(lastOp'.ns, lastOp'.key), ItemAtSet)

(***************************************************************************)
(* C23.  When a storage write in set fails because the quota is exceeded,  *)
(* the manager prunes the expired entries of its namespace and retries the *)
(* write: if pruning frees enough space, set returns true and the value is *)
(* stored; if set returns false, the key's previously stored entry is left *)
(* unchanged.                                                              *)
(***************************************************************************)
C23_QuotaPruneAndRetry ==
    [][SetStep =>
        LET fullKey == getFullKey(lastOp'.ns, lastOp'.key)
            pruned == prune(StoreAtSet, lastOp'.ns, cacheNow).storage
        IN  /\ (QuotaExceededAtSet /\ fits(pruned, fullKey, ItemAtSet)) =>
                  lastOp'.ret = TRUE /\ localStorage'[fullKey] = ItemAtSet
            /\ lastOp'.ret = FALSE => localStorage'[fullKey] = StoreAtSet[fullKey]
      ]_vars

\* The keys of a namespace, and the keys of none of the four.
CacheKeysOf(ns) == {k \in StorageKeys : startsWith(k, keyPrefix(ns))}

AllCacheKeys == UNION {CacheKeysOf(ns) : ns \in NamespaceSet}

(***************************************************************************)
(* C24.  Namespace isolation: clear() and prune() of a CacheManager delete *)
(* only storage keys that start with its own "<namespace>:" prefix (prune  *)
(* only the expired, version-mismatched or corrupted ones among them);     *)
(* entries of the other three pre-configured namespaces and unprefixed     *)
(* localStorage keys are left unchanged, so after clearAllCaches the four  *)
(* namespaces are empty while the analyze page's saved result under        *)
(* "foodpanda_analytics_data" is still in localStorage.                    *)
(***************************************************************************)
C24_NamespaceIsolation ==
    [][/\ (lastOp'.op \in {"clear", "prune"} /\ cacheOps' = cacheOps + 1) =>
            /\ \A k \in StorageKeys \ CacheKeysOf(lastOp'.ns) :
                  localStorage'[k] = localStorage[k]
            /\ \A k \in CacheKeysOf(lastOp'.ns) :
                  \/ localStorage'[k] = localStorage[k]
                  \/ /\ localStorage'[k] = Missing
                     /\ lastOp'.op = "prune" => isPrunable(localStorage[k], cacheNow)
       /\ (lastOp'.op = "clearAllCaches" /\ cacheOps' = cacheOps + 1) =>
            /\ \A k \in AllCacheKeys : localStorage'[k] = Missing
            /\ \A k \in StorageKeys \ AllCacheKeys :
                  localStorage'[k] = localStorage[k]
      ]_vars

(***************************************************************************)
(* C22.  getOrSet is an atomic get-or-set: when two getOrSet calls for the *)
(* same absent key overlap (the second starts while the first call's       *)
(* fetcher has not resolved), the fetcher is run only once, both calls     *)
(* return the same value, and the value left in the cache is the one       *)
(* returned to both.                                                       *)
(***************************************************************************)
C22_GetOrSetAtomic ==
    \A c \in Callers : \A d \in getOrSetCalls[c].during :
        /\ ~getOrSetCalls[c].ranFetcher
        /\ (getOrSetCalls[c].pc = "returned" /\ getOrSetCalls[d].pc = "returned") =>
              /\ getOrSetCalls[c].ret = getOrSetCalls[d].ret
              /\ LET item == localStorage[getFullKey("foodpanda_orders",
                                                     getOrSetCalls[c].key)]
                 IN  /\ item # Missing
                     /\ item.kind = "entry"
                     /\ item.value = getOrSetCalls[c].ret

\* The step is an event on the button.
ButtonEvent == events' = events + 1

(***************************************************************************)
(* C25.  ClearCacheButton two-step confirmation: clearAllCaches is called  *)
(* only by a click made in state 'confirming', which is reached only by a  *)
(* click in state 'idle'; a click in 'clearing', 'success' or 'error'      *)
(* changes nothing; Cancel from 'confirming' returns to 'idle' without     *)
(* clearing; and after a clear (successful without reloadOnClear, or       *)
(* failed) the button returns to 'idle' once its timer fires, with no      *)
(* timer ever moving the button out of 'confirming'.                       *)
(***************************************************************************)
C25_TwoStepConfirmation ==
    [][/\ clears' # clears =>
            ButtonEvent /\ lastEvent'.kind = "click" /\ state = "confirming"
       /\ (state' = "confirming" /\ state # "confirming") =>
            ButtonEvent /\ lastEvent'.kind = "click" /\ state = "idle"
       /\ (ButtonEvent /\ lastEvent'.kind = "click"
             /\ state \in {"clearing", "success", "error"}) =>
            UNCHANGED <<state, timers, clears, localStorage>>
       /\ (ButtonEvent /\ lastEvent'.kind = "cancel" /\ state = "confirming") =>
            state' = "idle" /\ UNCHANGED <<clears, localStorage>>
       /\ (ButtonEvent /\ lastEvent'.kind = "toIdle") =>
            state' = "idle" /\ state # "confirming"
      ]_vars

\* The fetchOrders call has ended, by a return or by a throw.
FetchReturned == fetched.kind = "return"
FetchThrew == fetched.kind = "throw"

FailureKinds == {"401", "notOk", "aborted", "rejected"}

C27_FetchFailureMessages ==
    lastPage.kind \in FailureKinds =>
        /\ actionState.success = FALSE
        /\ actionState.data = NoData
        /\ actionState.error \in Range(safeErrors) \cup {FallbackError}
        /\ lastPage.statusText # "" =>
              \A i \in 0..(Len(actionState.error) - Len(lastPage.statusText)) :
                  SubSeq(actionState.error, i + 1, i + Len(lastPage.statusText))
                      # lastPage.statusText
        /\ lastPage.kind = "401" =>
              actionState.error =
                  "Invalid or expired token. Please get a fresh token from FoodPanda."
        /\ lastPage.kind = "notOk" =>
              actionState.error =
                  "Unable to connect to FoodPanda. Please try again later."
        /\ lastPage.kind = "aborted" =>
              actionState.error = "Request timed out. Please try again."

\* The parts of a token between its dots.
DotParts(t) ==
    LET dots == {i \in DOMAIN t : t[i] = "."}
        cuts == {0} \cup dots \cup {Len(t) + 1}
    IN  {SubSeq(t, a + 1, b - 1) :
            <<a, b>> \in {c \in cuts \X cuts :
                            c[1] < c[2] /\ \A d \in cuts : ~(c[1] < d /\ d < c[2])}}

\* The submitted token is what the claim calls valid.
ValidSubmitted ==
    /\ Len(rawToken) >= 1
    /\ Len(rawToken) <= 2000
    /\ LET clean == cleanToken(rawToken)
           dots == {i \in DOMAIN clean : clean[i] = "."}
       IN  /\ Cardinality(dots) = 2
           /\ \A part \in DotParts(clean) :
                 part # <<>> /\ \A i \in DOMAIN part : part[i] \in Base64Url

(***************************************************************************)
(* C28.  processToken calls fetchOrders only after the submitted token     *)
(* passed validation (non-empty, at most 2000 characters, and three        *)
(* dot-separated base64url parts once an optional "Bearer " prefix is      *)
(* stripped), and calls analyze only when the fetch returned at least one  *)
(* order: an invalid token returns success = false without any fetch, and  *)
(* zero fetched orders returns "No orders found for this token" without    *)
(* calling analyze.                                                        *)
(***************************************************************************)
C28_ValidateThenFetchThenAnalyze ==
    /\ requested # <<>> => ValidSubmitted
    /\ (pc = "done" /\ ~ValidSubmitted) =>
          /\ actionState.success = FALSE
          /\ requested = <<>>
          /\ fetched = NoResult
          /\ analyzeCalls = 0
    /\ analyzeCalls <= 1
    /\ analyzeCalls = 1 => FetchReturned /\ Len(fetched.value) >= 1
    /\ (FetchReturned /\ Len(fetched.value) = 0) =>
          /\ actionState.success = FALSE
          /\ actionState.error = "No orders found for this token"
          /\ analyzeCalls = 0
    /\ (FetchReturned /\ Len(fetched.value) >= 1) =>
          /\ analyzeCalls = 1
          /\ actionState.success = TRUE
          /\ actionState.data.orderCount = Len(fetched.value)

\* A token with a "Bearer " prefix passed, and the fetch found orders.
C28_Witness ==
    /\ pc = "done"
    /\ Len(rawToken) > Len(bearer)
    /\ FetchReturned
    /\ analyzeCalls = 1
    /\ actionState.success = TRUE

====
